---- MODULE Spec2Model ----
(***************************************************************************)
(* Ticket lifecycle and escalation monitor of CustomerSupportManager       *)
(* (customer_support.py).  The request path (create_support_ticket,        *)
(* add_ticket_response, resolve_ticket, update_ticket_status) runs one     *)
(* call at a time; the escalation monitor is a second thread whose scan    *)
(* is interleaved with the request path ticket by ticket.  The send_message *)
(* calls of the request path and the return value of a call are kept in    *)
(* `call` when the calls are recorded (RequestSpec); the keyword classifier *)
(* works on texts that are sequences of characters (ClassifierSpec).       *)
(*                                                                         *)
(* Time is counted in days, so the 24 hours of the monitor are Day = 1.     *)
(* The model carries the fields the operations read or the properties      *)
(* below state; the timestamps updated_at and the actor stamps             *)
(* (resolved_by, updated_by, assigned_to) are written by the               *)
(* code but read by no operation and are left out of the tickets; the      *)
(* file on disk (json_dump) has them.                                      *)
(*                                                                         *)
(* Further specifications over the same variables: FaultSpec (failing      *)
(* writes and sends), RaceSpec (two threads saving the ticket file),       *)
(* HandlerSpec and DispatchSpec (handle_support_message and the sessions   *)
(* of support_states), LookupSpec (the classifier called while the shop    *)
(* is in use), ReviewSpec and StoreSpec (review_manager.py).               *)
(***************************************************************************)
EXTENDS Integers, Sequences, FiniteSets, TLC

\* ---------------------------------------------------------------- bounds
MaxTickets == 2
MaxTime == 2
MaxResolves == 2
MaxResponses == 1
\* responses per ticket when the calls are recorded
MaxThread == 2
\* fragments in a text handed to the classifier
MaxFragments == 3
\* tickets when writes and sends fail
MaxFaultTickets == 1
\* reviews in the review store
MaxReviews == 2

\* ------------------------------------------------------ program constants
\* timedelta(hours=24), in days
Day == 1

\* admin_config['admin_users'], in roster order
admin_users == <<7, 8>>
Admins == {admin_users[k] : k \in 1..Len(admin_users)}
\* the (user_id, username, category, message) of the create calls
Requests ==
    {[user_id |-> 42, username |-> "alice", category |-> "Payment Problems",
      message |-> "my btc payment failed"],
     [user_id |-> 43, username |-> "bob", category |-> "Order Issues",
      message |-> "where is my parcel"]}
Resolutions == {"refunded"}
\* the (responder_id, response, is_admin) of the add_ticket_response calls
Replies ==
    {[responder_id |-> 7, response |-> "we are on it", is_admin |-> TRUE]}
\* the same with the answers the ticket's owner adds
ThreadReplies ==
    Replies \cup
    {[responder_id |-> 42, response |-> "any news", is_admin |-> FALSE]}
NULL == "None"

\* the statuses of the data model
Statuses == {"open", "in_progress", "pending", "resolved", "closed"}
\* the values update_ticket_status is handed: new_status is an unchecked
\* str, and "archived" stands for any string outside the enumeration
StatusArgs == {"open", "in_progress", "resolved", "archived"}

\* outcome of the write of the ticket store at the end of escalate_ticket
IoOutcomes == {"ok", "fail"}

VARIABLES
    support_tickets,    \* self.support_tickets
    support_stats,      \* self.support_stats
    now,                \* datetime.datetime.now()
    mon,                \* monitor_support: position and locals of the thread
    escalate_calls,     \* ticket id -> number of escalate_ticket calls
    escalation_alerts,  \* ticket id -> admin -> send_message calls of escalate_ticket
    call,               \* the request-path call that ran last, when recorded
    inbound,            \* a text handed to the classifier and its answer
    env,                \* what fails around a call: a file write, chats
    disk,               \* what a load of the data files gives, when recorded
    race,               \* two threads inside save_support_tickets, step by step
    support_states,     \* the module's support_states: user id -> session
    handled,            \* the message handle_support_message ran on last
    reviews,            \* ReviewManager.reviews
    user_states,        \* user_states of the review handlers: user id -> state
    reviewed            \* the message handle_review_comment ran on last

vars == <<support_tickets, support_stats, now, mon,
          escalate_calls, escalation_alerts, call, inbound, env, disk, race,
          support_states, handled, reviews, user_states, reviewed>>

\* the variables that the operations taken as one step leave alone
\* the variables of the review handlers (review_manager.py)
shop == <<reviews, user_states, reviewed>>
apart == <<race, shop>>
\* the variables of the handlers of the bot
front == <<support_states, handled>>

TicketIds == 1..MaxTickets
\* the ticket ids the operations by id are called with, one of them unknown
TicketIdArgs == 1..(MaxTickets + 1)

\* ------------------------------------------------------------- helpers
load_support_tickets ==
    [tickets |-> <<>>, next_ticket_id |-> 1,
     active_tickets |-> 0, resolved_tickets |-> 0]

load_support_stats ==
    [total_tickets |-> 0, resolved_tickets |-> 0,
     daily_tickets |-> <<>>, category_stats |-> [c \in {} |-> 0]]

\* date().isoformat() of a time: the day bucket, numbered from 1
Today(t) == (t \div Day) + 1

Bump_Resets(d, k) ==
    [x \in DOMAIN d \cup {k} |-> IF x = k THEN 1 ELSE d[x]]

\* d[k] += 1 with the "not in" initialisation of lines 160-167
Bump(d, k) ==
    [x \in DOMAIN d \cup {k} |->
        IF x = k THEN (IF k \in DOMAIN d THEN d[k] ELSE 0) + 1 ELSE d[x]]

get_ticket_by_id_LoopLeak(ticket_id) ==
    LET ts == support_tickets.tickets
        hits == {i \in 1..Len(ts) : ts[i].id = ticket_id}
    IN IF hits = {} THEN Len(ts) ELSE CHOOSE i \in hits : \A j \in hits : i <= j

\* index of the first ticket with this id, 0 when there is none
get_ticket_by_id(ticket_id) ==
    LET ts == support_tickets.tickets
        hits == {i \in 1..Len(ts) : ts[i].id = ticket_id}
    IN IF hits = {} THEN 0 ELSE CHOOSE i \in hits : \A j \in hits : i <= j

get_user_tickets_FirstOnly(user_id) ==
    LET ts == support_tickets.tickets
        hits == {i \in 1..Len(ts) : ts[i].user_id = user_id}
    IN IF hits = {} THEN <<>>
       ELSE <<ts[CHOOSE i \in hits : \A j \in hits : i <= j]>>

\* lines 177-179: the list comprehension over the ticket list
get_user_tickets(user_id) ==
    LET OfUser(ticket) == ticket.user_id = user_id
    IN SelectSeq(support_tickets.tickets, OfUser)

CountStatus(ts, s) == Cardinality({i \in 1..Len(ts) : ts[i].status = s})

\* the monitor thread in time.sleep: "sleep" is line 542, "except" line 546
Sleeping(pc) == [pc |-> pc, open_tickets |-> <<>>, idx |-> 0,
                 pre_open |-> {}, start |-> 0, escalated_in_pass |-> {}]

\* what goes wrong around a call: the data file whose write raises
\* ("none" when writes go through) and the chats send_message raises for
NoFault == [write |-> "none", down |-> {}]

\* what a caller and a recording bot see of a request-path call: the
\* operation, the ticket id it was about, its return value (when it has not
\* raised), the stores it wrote to disk and the send_message calls it made,
\* in order, with those among them that raised; `on` says whether calls are
\* recorded at all
NoCall == [on |-> FALSE, op |-> "none", ticket_id |-> 0, ret |-> FALSE,
           raised |-> FALSE, saved |-> <<>>, sent |-> <<>>,
           undelivered |-> <<>>]

\* the send_message calls that raise: every notify_* function catches them
Undelivered(sent) ==
    LET Down(notice) == notice.chat_id \in env.down
    IN SelectSeq(sent, Down)

Returned_SwallowsWriteError(op, ticket_id, ret, saved, sent) ==
    IF call.on
    THEN [on |-> TRUE, op |-> op, ticket_id |-> ticket_id, ret |-> ret,
          raised |-> FALSE, saved |-> saved, sent |-> sent,
          undelivered |-> Undelivered(sent)]
    ELSE call

\* The tail of an operation: the writes of `saved` in order, then the
\* notification `sent`, then the return of `ret`.  A write that fails raises
\* out of the operation: the writes after it, the notification and the
\* return do not happen.
Returned(op, ticket_id, ret, saved, sent) ==
    LET failed == {k \in 1..Len(saved) : saved[k] = env.write}
        first == CHOOSE k \in failed : \A j \in failed : k <= j
    IN IF ~call.on
       THEN call
       ELSE IF failed = {}
       THEN [on |-> TRUE, op |-> op, ticket_id |-> ticket_id, ret |-> ret,
             raised |-> FALSE, saved |-> saved, sent |-> sent,
             undelivered |-> Undelivered(sent)]
       ELSE [on |-> TRUE, op |-> op, ticket_id |-> ticket_id, ret |-> FALSE,
             raised |-> TRUE, saved |-> SubSeq(saved, 1, first - 1),
             sent |-> <<>>, undelivered |-> <<>>]

\* lines 85-89 and 128-132: the data files after the call c, each file of
\* c.saved holding the store as the call has left it
Persisted(c) ==
    IF ~c.on
    THEN disk
    ELSE [support_tickets |->
              IF \E k \in 1..Len(c.saved) : c.saved[k] = "support_tickets"
              THEN support_tickets' ELSE disk.support_tickets,
          support_stats |->
              IF \E k \in 1..Len(c.saved) : c.saved[k] = "support_stats"
              THEN support_stats' ELSE disk.support_stats]

\* save_support_tickets() alone, and followed by save_support_stats()
SavedTickets == <<"support_tickets">>
SavedBoth == <<"support_tickets", "support_stats">>

\* a thread outside save_support_tickets, and one inside it with the text
\* json.dump has produced in the buffer of its file object
NoSave == [pc |-> "idle", buf |-> load_support_tickets]

\* no thread is writing; the ticket file is not truncated and has nothing
\* after the end of its text
NoRace == [req |-> NoSave, esc |-> NoSave,
           file |-> [truncated |-> FALSE, extra |-> 0]]

\* message.from_user of the messages and callbacks; a user without a
\* username has the empty one
Senders ==
    {[user_id |-> 42, username |-> "alice"], [user_id |-> 43, username |-> ""]}
SenderIds == {sender.user_id : sender \in Senders}

\* no entry for the user in support_states
NoSession == [action |-> "none", category |-> "none"]

\* what the handler did with a message: the reply it sent, the ticket it
\* created (0 for none), whether it raised instead of returning, and the
\* send_message calls of notify_admins_human_agent_request
NotHandled == [user_id |-> 0, text |-> <<>>, reply |-> "none", ticket_id |-> 0,
               raised |-> FALSE, human_agent_sent |-> <<>>]
\* review_manager.py lines 17-32: the review store when there is no file;
\* average_rating is kept in tenths
NoReviews ==
    [reviews |-> <<>>,
     statistics |-> [total_reviews |-> 0, average_rating |-> 50,
                     rating_distribution |-> [r \in 1..5 |-> 0]],
     verified_reviews |-> 0,
     featured_reviews |-> <<>>]

\* no entry for the user in user_states
NoState == [action |-> "none", step |-> "none", rating |-> 0]

\* handle_review_comment has not run
NotReviewed == [user_id |-> 0, text |-> <<>>, reply |-> "none", review_id |-> 0]

\* no text has been handed to the classifier
NoText == [message |-> <<>>, auto_response |-> "unset"]

\* ---------------------------------------------------------------- Init
\* the manager after __init__ with no data files on disk
Constructed ==
    /\ support_tickets = load_support_tickets
    /\ support_stats = load_support_stats
    /\ now = 0
    /\ mon = Sleeping("sleep")
    /\ escalate_calls = [i \in TicketIds |-> 0]
    /\ escalation_alerts = [i \in TicketIds |-> [a \in Admins |-> 0]]
    /\ disk = [support_tickets |-> load_support_tickets,
               support_stats |-> load_support_stats]
    /\ support_states = [user_id \in SenderIds |-> NoSession]
    /\ handled = NotHandled
    /\ reviews = NoReviews
    /\ user_states = [user_id \in SenderIds |-> NoState]
    /\ reviewed = NotReviewed

Init ==
    /\ Constructed
    /\ call = NoCall
    /\ inbound = NoText
    /\ env = NoFault
    /\ race = NoRace

InitRecorded ==
    /\ Constructed
    /\ call = [NoCall EXCEPT !.on = TRUE]
    /\ inbound = NoText
    /\ env = NoFault
    /\ race = NoRace

\* ------------------------------------------------------ request path
\* A write that fails (save_support_tickets, save_support_stats) raises out
\* of the operation after the in-memory change: the stores below are the
\* same whether the write went through or not.

\* lines 136 and 175: the id the next create_support_ticket call returns
ReturnedId == support_tickets.next_ticket_id

NextTicketId_Same(n) == n

\* line 154
NextTicketId(n) == n + 1

NewTicket(ticket_id, user_id, username, category, message) ==
    [id |-> ticket_id, user_id |-> user_id, username |-> username,
     category |-> category,
     message |-> message, status |-> "open", priority |-> "medium",
     created_at |-> now, responses |-> <<>>, resolution |-> NULL,
     escalated |-> FALSE]

\* one send_message call of a notify_* function: the chat it goes to, the
\* notice it is and the variable part of its text
Notice(chat_id, kind, ticket_id, text) ==
    [chat_id |-> chat_id, kind |-> kind, ticket_id |-> ticket_id,
     text |-> text]

notify_admins_new_ticket_StopsAtFailure(ticket) ==
    LET failing == {k \in 1..Len(admin_users) : admin_users[k] \in env.down}
        last == IF failing = {} THEN Len(admin_users)
                ELSE CHOOSE k \in failing : \A j \in failing : k <= j
    IN [k \in 1..last |->
           Notice(admin_users[k], "new_ticket", ticket.id, ticket.message)]

notify_admins_new_ticket_First(ticket) ==
    <<Notice(admin_users[1], "new_ticket", ticket.id, ticket.message)>>

\* lines 350-370: one call per admin of the roster, in roster order
notify_admins_new_ticket(ticket) ==
    [k \in 1..Len(admin_users) |->
        Notice(admin_users[k], "new_ticket", ticket.id, ticket.message)]

create_support_ticket(user_id, username, category, message) ==
    LET ticket_id == ReturnedId
        ticket == NewTicket(ticket_id, user_id, username, category, message)
    IN /\ Len(support_tickets.tickets) < MaxTickets
       /\ support_tickets' = [support_tickets EXCEPT
                                !.tickets = Append(@, ticket),
                                !.next_ticket_id = NextTicketId(@),
                                !.active_tickets = @ + 1]
       /\ support_stats' = [support_stats EXCEPT
                                !.total_tickets = @ + 1,
                                !.daily_tickets = Bump(@, Today(now)),
                                !.category_stats = Bump(@, category)]
       /\ call' = Returned("create_support_ticket", ticket_id, ticket_id, SavedBoth,
                           notify_admins_new_ticket(ticket))
       /\ UNCHANGED <<now, mon, escalate_calls, escalation_alerts, inbound, env,
                      apart>>
       /\ disk' = Persisted(call')

\* the "if not ticket: return False" of the three operations by id
NotFound(op, ticket_id) ==
    /\ get_ticket_by_id(ticket_id) = 0
    /\ call' = Returned(op, ticket_id, FALSE, <<>>, <<>>)
    /\ UNCHANGED <<support_tickets, support_stats, now, mon, escalate_calls,
                   escalation_alerts, inbound, env, disk, apart>>

Responded_Reopens(ticket, responder_id, response, is_admin) ==
    [ticket EXCEPT !.status = "open", !.responses = Append(@,
        [id |-> Len(ticket.responses) + 1, responder_id |-> responder_id,
         response |-> response, is_admin |-> is_admin])]

\* lines 194-202
Responded(ticket, responder_id, response, is_admin) ==
    [ticket EXCEPT !.responses = Append(@,
        [id |-> Len(ticket.responses) + 1, responder_id |-> responder_id,
         response |-> response, is_admin |-> is_admin])]

notify_user_ticket_response_Always(ticket, response, is_admin) ==
    <<Notice(ticket.user_id, "response", ticket.id, response)>>

\* lines 207-208 and 375-395: the owner is told when an admin has answered
notify_user_ticket_response(ticket, response, is_admin) ==
    IF is_admin
    THEN <<Notice(ticket.user_id, "response", ticket.id, response)>>
    ELSE <<>>

add_ticket_response(ticket_id, responder_id, response, is_admin) ==
    \/ NotFound("add_ticket_response", ticket_id)
    \/ LET i == get_ticket_by_id(ticket_id)
           ticket == support_tickets.tickets[i]
       IN /\ i # 0
          /\ support_tickets' = [support_tickets EXCEPT !.tickets[i] =
                                    Responded(ticket, responder_id, response, is_admin)]
          /\ call' = Returned("add_ticket_response", ticket_id, TRUE, SavedTickets,
                        notify_user_ticket_response(ticket, response, is_admin))
          /\ UNCHANGED <<support_stats, now, mon, escalate_calls,
                         escalation_alerts, inbound, env, apart>>
          /\ disk' = Persisted(call')

Resolved_IntoMessage(ticket, resolution) ==
    [ticket EXCEPT !.status = "resolved", !.message = resolution]

\* lines 219-220
Resolved(ticket, resolution) ==
    [ticket EXCEPT !.status = "resolved", !.resolution = resolution]

ResolveActive_Same(active) == active

\* line 224
ResolveActive(active) == active - 1

\* lines 400-428
notify_user_ticket_resolved(ticket) ==
    <<Notice(ticket.user_id, "resolved", ticket.id, ticket.resolution)>>

resolve_ticket(ticket_id, resolution) ==
    \/ NotFound("resolve_ticket", ticket_id)
    \/ LET i == get_ticket_by_id(ticket_id)
           ticket == support_tickets.tickets[i]
       IN /\ i # 0
          /\ support_tickets.resolved_tickets < MaxResolves
          /\ support_tickets' = [support_tickets EXCEPT
                                    !.tickets[i] = Resolved(ticket, resolution),
                                    !.active_tickets = ResolveActive(@),
                                    !.resolved_tickets = @ + 1]
          /\ support_stats' = [support_stats EXCEPT !.resolved_tickets = @ + 1]
          /\ call' = Returned("resolve_ticket", ticket_id, TRUE, SavedBoth,
                        notify_user_ticket_resolved(Resolved(ticket, resolution)))
          /\ UNCHANGED <<now, mon, escalate_calls, escalation_alerts, inbound,
                         env, apart>>
          /\ disk' = Persisted(call')

\* line 481
StatusSet(ticket, new_status) == [ticket EXCEPT !.status = new_status]

StatusActive_NoClamp(old_status, new_status, active) ==
    IF old_status = "open" /\ new_status # "open"
    THEN active - 1
    ELSE IF old_status # "open" /\ new_status = "open"
    THEN active + 1
    ELSE active

\* lines 486-489
StatusActive(old_status, new_status, active) ==
    IF old_status = "open" /\ new_status # "open"
    THEN (IF active - 1 > 0 THEN active - 1 ELSE 0)
    ELSE IF old_status # "open" /\ new_status = "open"
    THEN active + 1
    ELSE active

\* line 447: status.replace('_', ' ').title()
StatusText(status) ==
    CASE status = "open" -> "Open"
      [] status = "in_progress" -> "In Progress"
      [] status = "pending" -> "Pending"
      [] status = "resolved" -> "Resolved"
      [] status = "closed" -> "Closed"
      [] status = "archived" -> "Archived"

\* lines 435-467
notify_user_ticket_status_update(ticket, status) ==
    <<Notice(ticket.user_id, "status_update", ticket.id, StatusText(status))>>

update_ticket_status(ticket_id, new_status) ==
    \/ NotFound("update_ticket_status", ticket_id)
    \/ LET i == get_ticket_by_id(ticket_id)
           ticket == support_tickets.tickets[i]
           old_status == ticket.status
       IN /\ i # 0
          /\ support_tickets' = [support_tickets EXCEPT
                                    !.tickets[i] = StatusSet(ticket, new_status),
                                    !.active_tickets =
                                        StatusActive(old_status, new_status, @)]
          /\ call' = Returned("update_ticket_status", ticket_id, TRUE, SavedBoth,
                        notify_user_ticket_status_update(
                            StatusSet(ticket, new_status), new_status))
          /\ UNCHANGED <<support_stats, now, mon, escalate_calls,
                         escalation_alerts, inbound, env, apart>>
          /\ disk' = Persisted(call')

\* ------------------------------------------------------------- clock
Tick ==
    /\ now < MaxTime
    /\ now' = now + 1
    /\ UNCHANGED <<support_tickets, support_stats, mon,
                   escalate_calls, escalation_alerts, call, inbound, env, disk,
                   apart, front>>

\* ------------------------------------------------- escalation monitor
\* open_tickets holds references to the ticket dicts: here their positions
\* in the list, which never change because no ticket is ever removed.
\* pre_open, start and escalated_in_pass record the pass for the properties:
\* the tickets open when it started, its starting time, and the tickets it
\* has called escalate_ticket for.

OpenTickets_All(ts) == [i \in 1..Len(ts) |-> i]

\* line 533: the tickets that are open when the scan starts
OpenTickets(ts) ==
    SelectSeq([i \in 1..Len(ts) |-> i], LAMBDA i : ts[i].status = "open")

NeedsEscalation_NoFlag(ticket, t) ==
    t - ticket.created_at > Day

NeedsEscalation_AtDay(ticket, t) ==
    t - ticket.created_at >= Day /\ ~ticket.escalated

\* lines 537-539
NeedsEscalation(ticket, t) ==
    t - ticket.created_at > Day /\ ~ticket.escalated

Escalated_TakesOver(ticket) ==
    [ticket EXCEPT !.priority = "high", !.escalated = TRUE,
                   !.status = "in_progress"]

\* lines 556-557
Escalated(ticket) ==
    [ticket EXCEPT !.priority = "high", !.escalated = TRUE]

AfterError_Dies == Sleeping("dead")

\* lines 544-546: the except branch sleeps and the loop goes on
AfterError == Sleeping("except")

MonitorScan ==
    /\ mon.pc \in {"sleep", "except"}
    /\ mon' = [pc |-> "loop",
               open_tickets |-> OpenTickets(support_tickets.tickets),
               idx |-> 1,
               pre_open |-> {i \in 1..Len(support_tickets.tickets) :
                                support_tickets.tickets[i].status = "open"},
               start |-> now,
               escalated_in_pass |-> {}]
    /\ UNCHANGED <<support_tickets, support_stats, now,
                   escalate_calls, escalation_alerts, call, inbound, env, disk,
                   apart, front>>

\* one iteration of the for loop without a call of escalate_ticket
MonitorSkip ==
    /\ mon.pc = "loop"
    /\ mon.idx <= Len(mon.open_tickets)
    /\ ~NeedsEscalation(support_tickets.tickets[mon.open_tickets[mon.idx]], now)
    /\ mon' = [mon EXCEPT !.idx = @ + 1]
    /\ UNCHANGED <<support_tickets, support_stats, now,
                   escalate_calls, escalation_alerts, call, inbound, env, disk,
                   apart, front>>

\* one iteration of the for loop that calls escalate_ticket(ticket['id']):
\* every admin of the roster gets a send_message call (a failed send is
\* caught per admin), then the store is written; a failed write raises into
\* the except branch of the monitor
MonitorEscalate(io) ==
    LET ticket_id == support_tickets.tickets[mon.open_tickets[mon.idx]].id
        i == get_ticket_by_id(ticket_id)
    IN /\ mon.pc = "loop"
       /\ mon.idx <= Len(mon.open_tickets)
       /\ NeedsEscalation(support_tickets.tickets[mon.open_tickets[mon.idx]], now)
       /\ support_tickets' = [support_tickets EXCEPT !.tickets[i] =
                                Escalated(support_tickets.tickets[i])]
       /\ escalate_calls' = [escalate_calls EXCEPT ![ticket_id] = @ + 1]
       /\ escalation_alerts' = [escalation_alerts EXCEPT ![ticket_id] =
                                    [a \in Admins |-> @[a] + 1]]
       /\ mon' = IF io = "ok"
                 THEN [mon EXCEPT !.idx = @ + 1,
                                  !.escalated_in_pass = @ \cup {i}]
                 ELSE AfterError
       /\ UNCHANGED <<support_stats, now, call, inbound, env, disk, apart, front>>

\* line 542: the scan is over, time.sleep(3600)
MonitorSleep ==
    /\ mon.pc = "loop"
    /\ mon.idx > Len(mon.open_tickets)
    /\ mon' = Sleeping("sleep")
    /\ UNCHANGED <<support_tickets, support_stats, now,
                   escalate_calls, escalation_alerts, call, inbound, env, disk,
                   apart, front>>

Monitor ==
    \/ MonitorScan
    \/ MonitorSkip
    \/ \E io \in IoOutcomes : MonitorEscalate(io)
    \/ MonitorSleep

\* ------------------------------------------------ keyword classifier
\* A text is a sequence of characters.  The answer of the classifier is the
\* response of a category, localized or built-in (lines 256-277); the model
\* names it by the key of the category, and NULL is the None of "no match".

UpperCase == <<"A", "B", "C", "D", "E", "F", "G", "H", "I", "J", "K", "L", "M",
               "N", "O", "P", "Q", "R", "S", "T", "U", "V", "W", "X", "Y", "Z">>
LowerCase == <<"a", "b", "c", "d", "e", "f", "g", "h", "i", "j", "k", "l", "m",
               "n", "o", "p", "q", "r", "s", "t", "u", "v", "w", "x", "y", "z">>

\* line 238: str.lower(), on the letters A..Z
lower(text) ==
    [i \in 1..Len(text) |->
        IF \E k \in 1..Len(UpperCase) : UpperCase[k] = text[i]
        THEN LowerCase[CHOOSE k \in 1..Len(UpperCase) : UpperCase[k] = text[i]]
        ELSE text[i]]

Contains_Prefix(text, keyword) ==
    Len(keyword) <= Len(text) /\ SubSeq(text, 1, Len(keyword)) = keyword

\* lines 248 and 254: `keyword in message_lower`
Contains(text, keyword) ==
    \E i \in 0..(Len(text) - Len(keyword)) :
        SubSeq(text, i + 1, i + Len(keyword)) = keyword

\* one of the keywords of the list is in the text
Matches(text, keywords) ==
    \E k \in 1..Len(keywords) : Contains(text, keywords[k])

\* lines 241-245
human_agent_keywords ==
    <<
      <<"h", "u", "m", "a", "n">>,
      <<"a", "g", "e", "n", "t">>,
      <<"p", "e", "r", "s", "o", "n">>,
      <<"s", "t", "a", "f", "f">>,
      <<"r", "e", "p", "r", "e", "s", "e", "n", "t", "a", "t", "i", "v", "e">>,
      <<"m", "a", "n", "a", "g", "e", "r">>,
      <<"s", "u", "p", "e", "r", "v", "i", "s", "o", "r">>,
      <<"l", "i", "v", "e", " ", "c", "h", "a", "t">>,
      <<"r", "e", "a", "l", " ", "p", "e", "r", "s", "o", "n">>,
      <<"t", "a", "l", "k", " ", "t", "o", " ", "s", "o", "m", "e", "o", "n", "e">>,
      <<"s", "p", "e", "a", "k", " ", "t", "o">>,
      <<"c", "o", "n", "n", "e", "c", "t", " ", "m", "e">>,
      <<"t", "r", "a", "n", "s", "f", "e", "r", " ", "m", "e">>
    >>

greeting_keywords ==
    <<
      <<"h", "e", "l", "l", "o">>,
      <<"h", "i">>,
      <<"h", "e", "y">>,
      <<"g", "o", "o", "d", " ", "m", "o", "r", "n", "i", "n", "g">>,
      <<"g", "o", "o", "d", " ", "a", "f", "t", "e", "r", "n", "o", "o", "n">>,
      <<"g", "o", "o", "d", " ", "e", "v", "e", "n", "i", "n", "g">>,
      <<"n", "a", "m", "a", "s", "t", "e">>,
      <<"s", "a", "l", "a", "m">>,
      <<"a", "s", "s", "a", "l", "a", "m", "u", " ", "a", "l", "a", "i", "k", "u", "m">>,
      <<"k", "e", "m", "o", "n", " ", "a", "c", "h", "e", "n">>,
      <<"k", "i", " ", "o", "b", "o", "s", "t", "h", "a">>
    >>

order_status_keywords ==
    <<
      <<"o", "r", "d", "e", "r">>,
      <<"s", "t", "a", "t", "u", "s">>,
      <<"t", "r", "a", "c", "k", "i", "n", "g">>,
      <<"d", "e", "l", "i", "v", "e", "r", "y">>,
      <<"s", "h", "i", "p", "p", "e", "d">>,
      <<"w", "h", "e", "r", "e", " ", "i", "s", " ", "m", "y", " ", "o", "r", "d", "e", "r">>,
      <<"o", "r", "d", "e", "r", " ", "k", "o", "t", "h", "a", "y">>,
      <<"d", "e", "l", "i", "v", "e", "r", "y", " ", "k", "o", "b", "e", " ", "h", "o", "b", "e">>,
      <<"t", "r", "a", "c", "k", "i", "n", "g", " ", "n", "u", "m", "b", "e", "r">>
    >>

payment_help_keywords ==
    <<
      <<"p", "a", "y", "m", "e", "n", "t">>,
      <<"p", "a", "y">>,
      <<"c", "r", "y", "p", "t", "o">>,
      <<"b", "i", "t", "c", "o", "i", "n">>,
      <<"x", "m", "r">>,
      <<"w", "a", "l", "l", "e", "t">>,
      <<"h", "o", "w", " ", "t", "o", " ", "p", "a", "y">>,
      <<"p", "a", "y", "m", "e", "n", "t", " ", "k", "i", "v", "a", "b", "e", " ", "k", "o", "r", "b", "o">>,
      <<"b", "i", "t", "c", "o", "i", "n", " ", "a", "d", "d", "r", "e", "s", "s">>,
      <<"m", "o", "n", "e", "r", "o", " ", "a", "d", "d", "r", "e", "s", "s">>,
      <<"p", "a", "y", "m", "e", "n", "t", " ", "m", "e", "t", "h", "o", "d">>
    >>

product_info_keywords ==
    <<
      <<"p", "r", "o", "d", "u", "c", "t">>,
      <<"p", "r", "i", "c", "e">>,
      <<"s", "t", "o", "c", "k">>,
      <<"a", "v", "a", "i", "l", "a", "b", "l", "e">>,
      <<"q", "u", "a", "n", "t", "i", "t", "y">>,
      <<"p", "r", "o", "d", "u", "c", "t", " ", "l", "i", "s", "t">>,
      <<"k", "i", " ", "k", "i", " ", "a", "c", "h", "e">>,
      <<"p", "r", "i", "c", "e", " ", "k", "o", "t", "o">>,
      <<"s", "t", "o", "c", "k", " ", "a", "c", "h", "e", " ", "k", "i">>,
      <<"p", "r", "o", "d", "u", "c", "t", " ", "d", "e", "t", "a", "i", "l", "s">>
    >>

shipping_delivery_keywords ==
    <<
      <<"s", "h", "i", "p", "p", "i", "n", "g">>,
      <<"d", "e", "l", "i", "v", "e", "r", "y">>,
      <<"h", "o", "w", " ", "l", "o", "n", "g">>,
      <<"d", "e", "l", "i", "v", "e", "r", "y", " ", "t", "i", "m", "e">>,
      <<"s", "h", "i", "p", "p", "i", "n", "g", " ", "c", "o", "s", "t">>,
      <<"d", "e", "l", "i", "v", "e", "r", "y", " ", "k", "o", "b", "e", " ", "h", "o", "b", "e">>,
      <<"s", "h", "i", "p", "p", "i", "n", "g", " ", "k", "o", "t", "o", " ", "t", "a", "k", "a">>,
      <<"d", "e", "l", "i", "v", "e", "r", "y", " ", "t", "i", "m", "e", " ", "k", "o", "t", "o">>
    >>

refund_return_keywords ==
    <<
      <<"r", "e", "f", "u", "n", "d">>,
      <<"r", "e", "t", "u", "r", "n">>,
      <<"m", "o", "n", "e", "y", " ", "b", "a", "c", "k">>,
      <<"r", "e", "f", "u", "n", "d", " ", "c", "h", "a", "i">>,
      <<"r", "e", "t", "u", "r", "n", " ", "k", "o", "r", "b", "o">>,
      <<"m", "o", "n", "e", "y", " ", "b", "a", "c", "k", " ", "c", "h", "a", "i">>
    >>

technical_issues_keywords ==
    <<
      <<"e", "r", "r", "o", "r">>,
      <<"b", "u", "g">>,
      <<"n", "o", "t", " ", "w", "o", "r", "k", "i", "n", "g">>,
      <<"p", "r", "o", "b", "l", "e", "m">>,
      <<"i", "s", "s", "u", "e">>,
      <<"b", "r", "o", "k", "e", "n">>
    >>

general_help_keywords ==
    <<
      <<"h", "e", "l", "p">>,
      <<"h", "o", "w">>,
      <<"w", "h", "a", "t">>,
      <<"w", "h", "e", "r", "e">>,
      <<"w", "h", "e", "n">>
    >>

\* lines 24-57: the table, in the order the dict is iterated
auto_responses ==
    <<[category |-> "greeting", keywords |-> greeting_keywords],
      [category |-> "order_status", keywords |-> order_status_keywords],
      [category |-> "payment_help", keywords |-> payment_help_keywords],
      [category |-> "product_info", keywords |-> product_info_keywords],
      [category |-> "shipping_delivery", keywords |-> shipping_delivery_keywords],
      [category |-> "refund_return", keywords |-> refund_return_keywords],
      [category |-> "technical_issues", keywords |-> technical_issues_keywords],
      [category |-> "general_help", keywords |-> general_help_keywords]>>

analyze_message_for_auto_response_KeywordsFirst(message) ==
    LET message_lower == lower(message)
        hits == {c \in 1..Len(auto_responses) :
                    Matches(message_lower, auto_responses[c].keywords)}
    IN IF hits # {}
       THEN auto_responses[CHOOSE c \in hits : \A d \in hits : c <= d].category
       ELSE NULL

analyze_message_for_auto_response_LastMatch(message) ==
    LET message_lower == lower(message)
        hits == {c \in 1..Len(auto_responses) :
                    Matches(message_lower, auto_responses[c].keywords)}
    IN IF Matches(message_lower, human_agent_keywords)
       THEN NULL
       ELSE IF hits # {}
       THEN auto_responses[CHOOSE c \in hits : \A d \in hits : c >= d].category
       ELSE NULL

\* lines 236-279
analyze_message_for_auto_response(message) ==
    LET message_lower == lower(message)
        hits == {c \in 1..Len(auto_responses) :
                    Matches(message_lower, auto_responses[c].keywords)}
    IN IF Matches(message_lower, human_agent_keywords)
       THEN NULL
       ELSE IF hits # {}
       THEN auto_responses[CHOOSE c \in hits : \A d \in hits : c <= d].category
       ELSE NULL

\* the pieces the texts handed to the classifier are made of
Fragments ==
    {<<"b", "i", "t", "c", "o", "i", "n", " ", "a", "d", "d", "r", "e", "s", "s">>,
     <<"B", "i", "t", "c", "o", "i", "n", " ", "A", "d", "d", "r", "e", "s", "s">>,
     <<"t", "a", "l", "k", " ", "t", "o", " ", "s", "o", "m", "e", "o", "n", "e">>,
     <<"R", "E", "A", "L", " ", "P", "E", "R", "S", "O", "N", " ">>,
     <<"h", "i", " ">>,
     <<"t", "h", "i", "s", " ", "i", "s", " ", "m", "y", " ">>,
     <<"m", "y", " ">>,
     <<"o", "r", "d", "e", "r", " ">>,
     <<" ", "p", "r", "i", "c", "e">>,
     <<" ", "p", "l", "e", "a", "s", "e">>,
     <<"r", "e", "f", "u", "n", "d", " ">>,
     <<"h", "o", "w", " ", "l", "o", "n", "g">>,
     <<" ", "b", "r", "o", "k", "e", "n">>,
     <<" ", "w", "h", "a", "t">>}

\* the texts made of n fragments, one after the other
RECURSIVE Joined(_)
Joined(n) ==
    IF n = 0 THEN {<<>>}
    ELSE {f \o m : f \in Fragments, m \in Joined(n - 1)}

Messages == UNION {Joined(n) : n \in 0..MaxFragments}

Analyze_CountsCategory ==
    /\ inbound.auto_response = "unset"
    /\ inbound' = [inbound EXCEPT !.auto_response =
                        analyze_message_for_auto_response(inbound.message)]
    /\ support_stats' =
          [support_stats EXCEPT !.category_stats =
              Bump(@, analyze_message_for_auto_response(inbound.message))]
    /\ UNCHANGED <<support_tickets, now, mon, escalate_calls,
                   escalation_alerts, call, env, disk, apart, front>>

\* one call of analyze_message_for_auto_response
Analyze ==
    /\ inbound.auto_response = "unset"
    /\ inbound' = [inbound EXCEPT !.auto_response =
                        analyze_message_for_auto_response(inbound.message)]
    /\ UNCHANGED <<support_tickets, support_stats, now, mon, escalate_calls,
                   escalation_alerts, call, env, disk, apart, front>>

Create ==
    /\ \E r \in Requests :
          create_support_ticket(r.user_id, r.username, r.category, r.message)
    /\ UNCHANGED front

\* the ticket has fewer than n responses (or does not exist)
RoomForResponse(ticket_id, n) ==
    LET i == get_ticket_by_id(ticket_id)
    IN i # 0 => Len(support_tickets.tickets[i].responses) < n

AddResponse ==
    /\ \E t \in TicketIdArgs, r \in Replies :
          /\ RoomForResponse(t, MaxResponses)
          /\ add_ticket_response(t, r.responder_id, r.response, r.is_admin)
    /\ UNCHANGED front

\* answers of admins and of the owner, up to MaxThread per ticket
AddThreadResponse ==
    /\ \E t \in TicketIdArgs, r \in ThreadReplies :
          /\ RoomForResponse(t, MaxThread)
          /\ add_ticket_response(t, r.responder_id, r.response, r.is_admin)
    /\ UNCHANGED front

Resolve ==
    /\ \E t \in TicketIdArgs, r \in Resolutions : resolve_ticket(t, r)
    /\ UNCHANGED front

UpdateStatus ==
    /\ \E t \in TicketIdArgs, s \in StatusArgs : update_ticket_status(t, s)
    /\ UNCHANGED front

Next ==
    \/ Create
    \/ AddResponse
    \/ Resolve
    \/ UpdateStatus
    \/ Tick
    \/ Monitor

Spec == Init /\ [][Next]_vars

\* the monitor thread is scheduled again and again
FairSpec == Spec /\ WF_vars(Monitor)

\* the request path alone, one call at a time and all of them within one
\* day, with the calls recorded
RequestNext ==
    \/ Create
    \/ AddThreadResponse
    \/ Resolve
    \/ UpdateStatus

RequestSpec == InitRecorded /\ [][RequestNext]_vars

\* the request path with recorded calls while writes and sends fail
Owners == {r.user_id : r \in Requests}
Faults ==
    {NoFault,
     [write |-> "none", down |-> {admin_users[1]}],
     [write |-> "none", down |-> Admins \cup Owners],
     [write |-> "support_tickets", down |-> {}],
     [write |-> "support_stats", down |-> {}]}

\* the disk fills up or frees, chats block the bot or come back
Fault ==
    /\ env' \in Faults \ {env}
    /\ UNCHANGED <<support_tickets, support_stats, now, mon, escalate_calls,
                   escalation_alerts, call, inbound, disk, apart, front>>

\* create_support_ticket while the store has room
FaultCreate ==
    /\ Len(support_tickets.tickets) < MaxFaultTickets
    /\ Create

FaultNext ==
    \/ FaultCreate
    \/ AddResponse
    \/ Resolve
    \/ UpdateStatus
    \/ Fault

FaultSpec == InitRecorded /\ [][FaultNext]_vars

\* ------------------------------------- two threads writing the ticket file
\* update_ticket_status in the request thread and escalate_ticket in the
\* monitor thread, each taken apart into the change in memory (lines 479-489,
\* 556-558), open(..., 'w'), json.dump into the buffer of the file object
\* and the close that writes the buffer out (lines 85-89).  There is no lock
\* around any of it.  A store of this size stays in the buffer until the
\* close; the dump of the whole store is one step.

\* tickets in the store when the two threads meet
MaxRaceTickets == 1

\* the characters json.dump writes for the fields that change: the status,
\* the priority and the key escalate_ticket adds (a comma, a line break, six
\* blanks and '"escalated": true'); what never changes counts as one
StatusLen(status) ==
    CASE status = "open" -> 4
      [] status = "in_progress" -> 11
      [] status = "pending" -> 7
      [] status = "resolved" -> 8
      [] status = "closed" -> 6
      [] status = "archived" -> 8
PriorityLen(priority) == IF priority = "high" THEN 4 ELSE 6
EscalatedKeyLen == 25
TicketLen(ticket) ==
    1 + StatusLen(ticket.status) + PriorityLen(ticket.priority)
      + (IF ticket.escalated THEN EscalatedKeyLen ELSE 0)

RECURSIVE TicketsLen(_)
TicketsLen(ts) ==
    IF ts = <<>> THEN 0 ELSE TicketLen(Head(ts)) + TicketsLen(Tail(ts))

TextLen(store) == 1 + TicketsLen(store.tickets)

\* the length of the ticket file
FileLen ==
    IF race.file.truncated
    THEN 0
    ELSE TextLen(disk.support_tickets) + race.file.extra

\* json.load reads the file back
Loadable == ~race.file.truncated /\ race.file.extra = 0

\* line 88: open(..., 'w') empties the file; the position of every open file
\* object stays at 0
Opened == [truncated |-> TRUE, extra |-> 0]

\* line 89, leaving the with block: the buffer goes to the file from
\* position 0 on, over what is there, and what is there beyond its end stays
Closed(buf) ==
    [truncated |-> FALSE,
     extra |-> IF FileLen > TextLen(buf) THEN FileLen - TextLen(buf) ELSE 0]

\* lines 474-489 of update_ticket_status, on a ticket of the store
ReqMutate(ticket_id, new_status) ==
    LET i == get_ticket_by_id(ticket_id)
        ticket == support_tickets.tickets[i]
    IN /\ race.req.pc = "idle"
       /\ i # 0
       /\ support_tickets' = [support_tickets EXCEPT
                                !.tickets[i] = StatusSet(ticket, new_status),
                                !.active_tickets =
                                    StatusActive(ticket.status, new_status, @)]
       /\ race' = [race EXCEPT !.req.pc = "mutated"]
       /\ UNCHANGED <<support_stats, now, mon, escalate_calls,
                      escalation_alerts, call, inbound, env, disk, front, shop>>

\* lines 553-581 of escalate_ticket, called by the scan
EscMutate ==
    LET ticket_id == support_tickets.tickets[mon.open_tickets[mon.idx]].id
        i == get_ticket_by_id(ticket_id)
    IN /\ race.esc.pc = "idle"
       /\ mon.pc = "loop"
       /\ mon.idx <= Len(mon.open_tickets)
       /\ NeedsEscalation(support_tickets.tickets[mon.open_tickets[mon.idx]], now)
       /\ support_tickets' = [support_tickets EXCEPT !.tickets[i] =
                                Escalated(support_tickets.tickets[i])]
       /\ escalate_calls' = [escalate_calls EXCEPT ![ticket_id] = @ + 1]
       /\ escalation_alerts' = [escalation_alerts EXCEPT ![ticket_id] =
                                    [a \in Admins |-> @[a] + 1]]
       /\ race' = [race EXCEPT !.esc.pc = "mutated"]
       /\ UNCHANGED <<support_stats, now, mon, call, inbound, env, disk, front, shop>>

\* line 88 in the thread th ("req" or "esc")
SaveOpen(th) ==
    /\ race[th].pc = "mutated"
    /\ race' = [race EXCEPT ![th].pc = "open", !.file = Opened]
    /\ UNCHANGED <<support_tickets, support_stats, now, mon, escalate_calls,
                   escalation_alerts, call, inbound, env, disk, front, shop>>

\* line 89 in the thread th: the store as it is now goes into the buffer
SaveDump(th) ==
    /\ race[th].pc = "open"
    /\ race' = [race EXCEPT ![th] = [pc |-> "dumped", buf |-> support_tickets]]
    /\ UNCHANGED <<support_tickets, support_stats, now, mon, escalate_calls,
                   escalation_alerts, call, inbound, env, disk, front, shop>>

\* the end of the with block in the thread th; update_ticket_status goes on
\* to the stats file and the notice, the scan to its next ticket
SaveClose(th) ==
    /\ race[th].pc = "dumped"
    /\ disk' = [disk EXCEPT !.support_tickets = race[th].buf]
    /\ race' = [race EXCEPT ![th] = NoSave, !.file = Closed(race[th].buf)]
    /\ mon' = IF th = "esc"
              THEN [mon EXCEPT !.idx = @ + 1,
                               !.escalated_in_pass =
                                   @ \cup {mon.open_tickets[mon.idx]}]
              ELSE mon
    /\ UNCHANGED <<support_tickets, support_stats, now, escalate_calls,
                   escalation_alerts, call, inbound, env, front, shop>>

\* no thread is inside an operation
Quiet == race.req.pc = "idle" /\ race.esc.pc = "idle"

\* tickets are created while nothing else runs
RaceCreate ==
    /\ Quiet
    /\ Loadable
    /\ Len(support_tickets.tickets) < MaxRaceTickets
    /\ Create

RaceRequest ==
    \/ \E t \in TicketIds, s \in StatusArgs : ReqMutate(t, s)
    \/ SaveOpen("req")
    \/ SaveDump("req")
    \/ SaveClose("req")

\* the monitor thread: its scan, with escalate_ticket step by step
RaceMonitor ==
    \/ race.esc.pc = "idle" /\ (MonitorScan \/ MonitorSkip \/ MonitorSleep)
    \/ EscMutate
    \/ SaveOpen("esc")
    \/ SaveDump("esc")
    \/ SaveClose("esc")

RaceNext ==
    \/ RaceCreate
    \/ Tick
    \/ RaceRequest
    \/ RaceMonitor

RaceSpec == InitRecorded /\ [][RaceNext]_vars

\* ---------------------------------------------------- message handlers
\* handle_support_message (lines 653-788) and the support_category_ branch of
\* support_callback_handler (lines 823-829), one run of a handler per step.
\* Texts are sequences of characters, as in the classifier.

\* the buttons of create_support_category_menu the users press
MenuCategories == {"Payment Problems", "Order Issues"}

\* message.text of the messages
TextCancel == <<"c", "a", "n", "c", "e", "l">>
TextStop == <<"S", "T", "O", "P">>
TextExit == <<"E", "x", "i", "t">>
TextOneLetter == <<"a">>
TextParcelLost ==
    <<"m", "y", " ", "p", "a", "r", "c", "e", "l", " ", "i", "s", " ", "l",
      "o", "s", "t">>
TextHumanAgentChai ==
    <<"h", "u", "m", "a", "n", " ", "a", "g", "e", "n", "t", " ", "c", "h",
      "a", "i">>
HandlerTexts ==
    {TextCancel, TextStop, TextExit, TextOneLetter, TextParcelLost,
     TextHumanAgentChai}

\* line 667
CancelWords ==
    {<<"c", "a", "n", "c", "e", "l">>, <<"s", "t", "o", "p">>,
     <<"e", "x", "i", "t">>}

\* lines 710-716: the list of the handler, longer than the classifier's
handler_human_agent_keywords ==
    <<
      <<"h", "u", "m", "a", "n">>,
      <<"a", "g", "e", "n", "t">>,
      <<"p", "e", "r", "s", "o", "n">>,
      <<"s", "t", "a", "f", "f">>,
      <<"r", "e", "p", "r", "e", "s", "e", "n", "t", "a", "t", "i", "v",
        "e">>,
      <<"m", "a", "n", "a", "g", "e", "r">>,
      <<"s", "u", "p", "e", "r", "v", "i", "s", "o", "r">>,
      <<"l", "i", "v", "e", " ", "c", "h", "a", "t">>,
      <<"r", "e", "a", "l", " ", "p", "e", "r", "s", "o", "n">>,
      <<"t", "a", "l", "k", " ", "t", "o", " ", "s", "o", "m", "e", "o",
        "n", "e">>,
      <<"s", "p", "e", "a", "k", " ", "t", "o">>,
      <<"c", "o", "n", "n", "e", "c", "t", " ", "m", "e">>,
      <<"t", "r", "a", "n", "s", "f", "e", "r", " ", "m", "e">>,
      <<"a", "m", "i", " ", "h", "u", "m", "a", "n", " ", "e", "r", " ",
        "s", "a", "t", "h", "e", " ", "k", "o", "t", "h", "a", " ", "b",
        "o", "l", "t", "e", " ", "c", "h", "a", "i">>,
      <<"h", "u", "m", "a", "n", " ", "a", "g", "e", "n", "t", " ", "c",
        "h", "a", "i">>,
      <<"s", "t", "a", "f", "f", " ", "e", "r", " ", "s", "a", "t", "h",
        "e", " ", "k", "o", "t", "h", "a", " ", "b", "o", "l", "t", "e",
        " ", "h", "o", "b", "e">>,
      <<"m", "a", "n", "a", "g", "e", "r", " ", "e", "r", " ", "s", "a",
        "t", "h", "e", " ", "k", "o", "t", "h", "a">>
    >>

\* lines 826-829
CreatingTicket(category) == [action |-> "creating_ticket", category |-> category]

\* the record of a run of the handler
Handled(user_id, text, reply, ticket_id, raised) ==
    [user_id |-> user_id, text |-> text, reply |-> reply,
     ticket_id |-> ticket_id, raised |-> raised, human_agent_sent |-> <<>>]

\* a write of the operation fails
WriteFails(saved) == \E k \in 1..Len(saved) : saved[k] = env.write

Answer_HumanAgentFirst(text, transactional) ==
    IF Matches(lower(text), handler_human_agent_keywords)
    THEN "human_agent"
    ELSE IF transactional
    THEN "none"
    ELSE IF analyze_message_for_auto_response(text) # NULL
    THEN "auto_response"
    ELSE IF Len(text) > 3
    THEN "suggestion"
    ELSE "ack"

\* lines 694-788: the answer to a message outside a session; a user in a
\* transactional state of the shop bot gets none
Answer(text, transactional) ==
    IF transactional
    THEN "none"
    ELSE IF Matches(lower(text), handler_human_agent_keywords)
    THEN "human_agent"
    ELSE IF analyze_message_for_auto_response(text) # NULL
    THEN "auto_response"
    ELSE IF Len(text) > 3
    THEN "suggestion"
    ELSE "ack"

notify_admins_human_agent_request_First(user_id, username, message) ==
    <<Notice(admin_users[1], "human_agent_request", user_id,
             IF Len(message) > 200 THEN SubSeq(message, 1, 200) \o <<".", ".", ".">>
             ELSE message)>>

\* lines 586-613: one call per admin of the roster, with the user's id
\* where the ticket notices have the ticket's and message[:200] as text
notify_admins_human_agent_request(user_id, username, message) ==
    [k \in 1..Len(admin_users) |->
        Notice(admin_users[k], "human_agent_request", user_id,
               IF Len(message) > 200 THEN SubSeq(message, 1, 200) \o <<".", ".", ".">>
               ELSE message)]

\* lines 694-788: a run of the handler outside a session
Outside(user_id, username, text, transactional) ==
    LET reply == Answer(text, transactional)
    IN [Handled(user_id, text, reply, 0, FALSE)
           EXCEPT !.human_agent_sent =
               IF reply = "human_agent"
               THEN notify_admins_human_agent_request(user_id, username, text)
               ELSE <<>>]

\* line 823: a press on a category button
support_callback_handler(sender, category) ==
    /\ support_states' = [support_states EXCEPT
                            ![sender.user_id] = CreatingTicket(category)]
    /\ UNCHANGED <<support_tickets, support_stats, now, mon, escalate_calls,
                   escalation_alerts, call, inbound, env, disk, apart, handled>>

handle_support_message_CancelAsTyped(sender, text, transactional) ==
    LET user_id == sender.user_id
        username == IF sender.username = "" THEN "Unknown" ELSE sender.username
        state == support_states[user_id]
    IN IF state.action = "creating_ticket"
       THEN IF text \in CancelWords
            THEN /\ support_states' = [support_states EXCEPT ![user_id] = NoSession]
                 /\ handled' = Handled(user_id, text, "cancelled", 0, FALSE)
                 /\ UNCHANGED <<support_tickets, support_stats, now, mon,
                                escalate_calls, escalation_alerts, call, inbound,
                                env, disk, apart>>
            ELSE /\ create_support_ticket(user_id, username, state.category, text)
                 /\ support_states' =
                        IF WriteFails(SavedBoth)
                        THEN support_states
                        ELSE [support_states EXCEPT ![user_id] = NoSession]
                 /\ handled' = IF WriteFails(SavedBoth)
                               THEN Handled(user_id, text, "none", 0, TRUE)
                               ELSE Handled(user_id, text, "created",
                                            ReturnedId, FALSE)
       ELSE /\ handled' = Outside(user_id, username, text, transactional)
            /\ UNCHANGED <<support_tickets, support_stats, now, mon,
                           escalate_calls, escalation_alerts, call, inbound,
                           env, disk, apart, support_states>>

handle_support_message_KeepsSession(sender, text, transactional) ==
    LET user_id == sender.user_id
        username == IF sender.username = "" THEN "Unknown" ELSE sender.username
        state == support_states[user_id]
    IN IF state.action = "creating_ticket"
       THEN IF lower(text) \in CancelWords
            THEN /\ support_states' = [support_states EXCEPT ![user_id] = NoSession]
                 /\ handled' = Handled(user_id, text, "cancelled", 0, FALSE)
                 /\ UNCHANGED <<support_tickets, support_stats, now, mon,
                                escalate_calls, escalation_alerts, call, inbound,
                                env, disk, apart>>
            ELSE /\ create_support_ticket(user_id, username, state.category, text)
                 /\ support_states' = support_states
                 /\ handled' = IF WriteFails(SavedBoth)
                               THEN Handled(user_id, text, "none", 0, TRUE)
                               ELSE Handled(user_id, text, "created",
                                            ReturnedId, FALSE)
       ELSE /\ handled' = Outside(user_id, username, text, transactional)
            /\ UNCHANGED <<support_tickets, support_stats, now, mon,
                           escalate_calls, escalation_alerts, call, inbound,
                           env, disk, apart, support_states>>

handle_support_message_SkipFirst(sender, text, transactional) ==
    IF transactional
    THEN /\ handled' = Handled(sender.user_id, text, "none", 0, FALSE)
         /\ UNCHANGED <<support_tickets, support_stats, now, mon,
                        escalate_calls, escalation_alerts, call, inbound,
                        env, disk, apart, support_states>>
    ELSE
    LET user_id == sender.user_id
        username == IF sender.username = "" THEN "Unknown" ELSE sender.username
        state == support_states[user_id]
    IN IF state.action = "creating_ticket"
       THEN IF lower(text) \in CancelWords
            THEN /\ support_states' = [support_states EXCEPT ![user_id] = NoSession]
                 /\ handled' = Handled(user_id, text, "cancelled", 0, FALSE)
                 /\ UNCHANGED <<support_tickets, support_stats, now, mon,
                                escalate_calls, escalation_alerts, call, inbound,
                                env, disk, apart>>
            ELSE /\ create_support_ticket(user_id, username, state.category, text)
                 /\ support_states' =
                        IF WriteFails(SavedBoth)
                        THEN support_states
                        ELSE [support_states EXCEPT ![user_id] = NoSession]
                 /\ handled' = IF WriteFails(SavedBoth)
                               THEN Handled(user_id, text, "none", 0, TRUE)
                               ELSE Handled(user_id, text, "created",
                                            ReturnedId, FALSE)
       ELSE /\ handled' = Outside(user_id, username, text, transactional)
            /\ UNCHANGED <<support_tickets, support_stats, now, mon,
                           escalate_calls, escalation_alerts, call, inbound,
                           env, disk, apart, support_states>>

\* lines 654-788
handle_support_message(sender, text, transactional) ==
    LET user_id == sender.user_id
        username == IF sender.username = "" THEN "Unknown" ELSE sender.username
        state == support_states[user_id]
    IN IF state.action = "creating_ticket"
       THEN IF lower(text) \in CancelWords
            THEN /\ support_states' = [support_states EXCEPT ![user_id] = NoSession]
                 /\ handled' = Handled(user_id, text, "cancelled", 0, FALSE)
                 /\ UNCHANGED <<support_tickets, support_stats, now, mon,
                                escalate_calls, escalation_alerts, call, inbound,
                                env, disk, apart>>
            ELSE /\ create_support_ticket(user_id, username, state.category, text)
                 /\ support_states' =
                        IF WriteFails(SavedBoth)
                        THEN support_states
                        ELSE [support_states EXCEPT ![user_id] = NoSession]
                 /\ handled' = IF WriteFails(SavedBoth)
                               THEN Handled(user_id, text, "none", 0, TRUE)
                               ELSE Handled(user_id, text, "created",
                                            ReturnedId, FALSE)
       ELSE /\ handled' = Outside(user_id, username, text, transactional)
            /\ UNCHANGED <<support_tickets, support_stats, now, mon,
                           escalate_calls, escalation_alerts, call, inbound,
                           env, disk, apart, support_states>>

SelectCategory ==
    \E sender \in Senders, category \in MenuCategories :
        support_callback_handler(sender, category)

HandleMessage ==
    \E sender \in Senders, text \in HandlerTexts, transactional \in BOOLEAN :
        handle_support_message(sender, text, transactional)

\* the ticket file cannot be written, or can again
WriteFault ==
    /\ env' \in {NoFault, [write |-> "support_tickets", down |-> {}]} \ {env}
    /\ UNCHANGED <<support_tickets, support_stats, now, mon, escalate_calls,
                   escalation_alerts, call, inbound, disk, apart, front>>

HandlerNext ==
    \/ SelectCategory
    \/ HandleMessage
    \/ WriteFault

HandlerSpec == Init /\ [][HandlerNext]_vars

\* ------------------------------------------------------------ reviews
\* ReviewManager.add_review (review_manager.py lines 39-76) and the handlers
\* of the review dialogue (lines 153-155, 237-245, 268-272, 282-300).

\* the stars of the rate_ buttons the users press
Ratings == {3, 5}

\* message.text of the comments: nine characters, ten, and more than twenty
CommentNine == <<"t", "o", "o", " ", "s", "h", "o", "r", "t">>
CommentTen == <<"g", "o", "o", "d", " ", "s", "t", "u", "f", "f">>
CommentLong ==
    <<"r", "e", "a", "l", "l", "y", " ", "g", "o", "o", "d", " ", "s", "t",
      "u", "f", "f", ",", " ", "t", "h", "a", "n", "k", " ", "y", "o", "u">>
Comments == {CommentNine, CommentTen, CommentLong}

\* lines 62-64: round(total_ratings / total_reviews, 1) in tenths, ties to
\* the even tenth (there is no tie with fewer than four reviews)
AverageRating(distribution) ==
    LET total_ratings ==
            distribution[1] + 2 * distribution[2] + 3 * distribution[3]
            + 4 * distribution[4] + 5 * distribution[5]
        total_reviews ==
            distribution[1] + distribution[2] + distribution[3]
            + distribution[4] + distribution[5]
        q == (10 * total_ratings) \div total_reviews
        r == (10 * total_ratings) % total_reviews
    IN IF total_reviews = 0 THEN 50
       ELSE IF 2 * r < total_reviews THEN q
       ELSE IF 2 * r > total_reviews THEN q + 1
       ELSE IF q % 2 = 0 THEN q ELSE q + 1

\* lines 39-76: the changes to self.reviews; an order id is a string, and
\* "if order_id" (line 67) is false for None and for the empty string
add_review_order(user_id, username, rating, comment, order_id) ==
    LET review == [id |-> Len(reviews.reviews) + 1, user_id |-> user_id,
                   username |-> username, rating |-> rating,
                   comment |-> comment, order_id |-> order_id,
                   verified_purchase |-> order_id # NULL, date |-> now,
                   likes |-> 0, helpful_count |-> 0]
        distribution ==
            [reviews.statistics.rating_distribution EXCEPT ![rating] = @ + 1]
    IN [reviews |-> Append(reviews.reviews, review),
        statistics |-> [total_reviews |-> reviews.statistics.total_reviews + 1,
                        average_rating |-> AverageRating(distribution),
                        rating_distribution |-> distribution],
        verified_reviews |->
            IF order_id \notin {NULL, ""}
            THEN reviews.verified_reviews + 1
            ELSE reviews.verified_reviews,
        featured_reviews |->
            IF rating >= 4 /\ Len(comment) > 20
               /\ Len(reviews.featured_reviews) < 5
            THEN Append(reviews.featured_reviews, review.id)
            ELSE reviews.featured_reviews]

\* line 39: order_id=None
add_review(user_id, username, rating, comment) ==
    add_review_order(user_id, username, rating, comment, NULL)

\* lines 153-155: the write_review button
write_review(sender) ==
    /\ user_states' = [user_states EXCEPT ![sender.user_id] =
                          [action |-> "writing_review", step |-> "rating",
                           rating |-> 0]]
    /\ UNCHANGED <<support_tickets, support_stats, now, mon, escalate_calls,
                   escalation_alerts, call, inbound, env, disk, race, front,
                   reviews, reviewed>>

\* lines 237-245: a rate_ button
handle_rating_selection(sender, rating) ==
    /\ user_states[sender.user_id].action = "writing_review"
    /\ user_states' = [user_states EXCEPT ![sender.user_id] =
                          [action |-> "writing_review", step |-> "comment",
                           rating |-> rating]]
    /\ UNCHANGED <<support_tickets, support_stats, now, mon, escalate_calls,
                   escalation_alerts, call, inbound, env, disk, race, front,
                   reviews, reviewed>>

\* lines 268-272: the cancel_review button
handle_review_cancel(sender) ==
    /\ user_states' = [user_states EXCEPT ![sender.user_id] = NoState]
    /\ UNCHANGED <<support_tickets, support_stats, now, mon, escalate_calls,
                   escalation_alerts, call, inbound, env, disk, race, front,
                   reviews, reviewed>>

TooShort_AtTen(text) == Len(text) <= 10

\* line 287
TooShort(text) == Len(text) < 10

\* lines 282-300: a message of a user in the comment step
handle_review_comment(sender, text) ==
    LET user_id == sender.user_id
        state == user_states[user_id]
        username == IF sender.username = "" THEN "Anonymous"
                    ELSE sender.username
    IN /\ state.action = "writing_review"
       /\ state.step = "comment"
       /\ Len(reviews.reviews) < MaxReviews
       /\ IF TooShort(text)
          THEN /\ reviewed' = [user_id |-> user_id, text |-> text,
                               reply |-> "too_short", review_id |-> 0]
               /\ UNCHANGED <<reviews, user_states>>
          ELSE /\ reviews' = add_review(user_id, username, state.rating, text)
               /\ user_states' = [user_states EXCEPT ![user_id] = NoState]
               /\ reviewed' = [user_id |-> user_id, text |-> text,
                               reply |-> "thank_you",
                               review_id |-> Len(reviews.reviews) + 1]
       /\ UNCHANGED <<support_tickets, support_stats, now, mon, escalate_calls,
                      escalation_alerts, call, inbound, env, disk, race, front>>

ReviewNext ==
    \/ \E sender \in Senders : write_review(sender)
    \/ \E sender \in Senders, rating \in Ratings :
          handle_rating_selection(sender, rating)
    \/ \E sender \in Senders : handle_review_cancel(sender)
    \/ \E sender \in Senders, text \in Comments :
          handle_review_comment(sender, text)

ReviewSpec == Init /\ [][ReviewNext]_vars

\* the classifier alone: a text arrives and is analysed
InitClassifier ==
    /\ Constructed
    /\ call = NoCall
    /\ inbound \in {[message |-> m, auto_response |-> "unset"] : m \in Messages}
    /\ env = NoFault
    /\ race = NoRace

ClassifierNext == Analyze

ClassifierSpec == InitClassifier /\ [][ClassifierNext]_vars

\* ------------------------------- the classifier while the shop is in use
\* analyze_message_for_auto_response (lines 236-279) called between the
\* requests and the button presses, on texts that arrive one at a time.

TextRefundOrder ==
    <<"r", "e", "f", "u", "n", "d", " ", "m", "y", " ", "o", "r", "d", "e",
      "r">>
TextRealPerson ==
    <<"R", "E", "A", "L", " ", "P", "E", "R", "S", "O", "N", " ", "p", "l",
      "e", "a", "s", "e">>
ArrivingTexts ==
    {TextParcelLost, TextHumanAgentChai, TextRefundOrder, TextRealPerson}

\* a text is about to be handed to the classifier
Arrive ==
    /\ \E message \in ArrivingTexts :
          inbound' = [message |-> message, auto_response |-> "unset"]
    /\ UNCHANGED <<support_tickets, support_stats, now, mon, escalate_calls,
                   escalation_alerts, call, env, disk, apart, front>>

LookupNext ==
    \/ Create
    \/ Resolve
    \/ SelectCategory
    \/ Arrive
    \/ Analyze

LookupSpec == Init /\ [][LookupNext]_vars

\* --------------------------------------- the messages the handler is given
\* The handler with the filter it is registered with (line 653) and texts
\* that have classifier keywords and human-agent phrases, in and out of a
\* session; no write fails here.

TextSlashSupport ==
    <<"/", "s", "u", "p", "p", "o", "r", "t">>
TextAdminHelp ==
    <<"a", "d", "m", "i", "n", " ", "h", "e", "l", "p">>
DispatchTexts ==
    {TextCancel, TextRefundOrder, TextRealPerson, TextSlashSupport,
     TextAdminHelp}

\* str.startswith
startswith(text, prefix) ==
    Len(prefix) <= Len(text) /\ SubSeq(text, 1, Len(prefix)) = prefix

Routed_AdminToo(text) ==
    text # <<>> /\ ~startswith(text, <<"/">>)

\* line 653: the messages handle_support_message is called for
Routed(text) ==
    /\ text # <<>>
    /\ ~startswith(text, <<"/">>)
    /\ ~startswith(text, <<"a", "d", "m", "i", "n">>)

Dispatch ==
    \E sender \in Senders, text \in DispatchTexts, transactional \in BOOLEAN :
        /\ Routed(text)
        /\ handle_support_message(sender, text, transactional)

DispatchNext ==
    \/ SelectCategory
    \/ Dispatch

DispatchSpec == Init /\ [][DispatchNext]_vars

\* ------------------------------------------------- the review store
\* add_review and delete_review called one after the other
\* (review_manager.py lines 39-105).

\* the order_id arguments of add_review
OrderIds == {NULL, "ORD-1"}

\* the review_id arguments of delete_review and get_review_by_id
ReviewIdArgs == 1..(MaxReviews + 1)

\* lines 82-87: the place of the first review with this id, 0 for None
get_review_by_id(review_id) ==
    LET rs == reviews.reviews
        hits == {i \in 1..Len(rs) : rs[i].id = review_id}
    IN IF hits = {} THEN 0 ELSE CHOOSE i \in hits : \A j \in hits : i <= j

\* list.remove: without the first occurrence of the value
RECURSIVE remove(_, _)
remove(list, value) ==
    IF list = <<>> THEN <<>>
    ELSE IF Head(list) = value THEN Tail(list)
    ELSE <<Head(list)>> \o remove(Tail(list), value)

\* lines 89-105: the changes to self.reviews
delete_review(review_id) ==
    LET i == get_review_by_id(review_id)
        review == reviews.reviews[i]
    IN IF i = 0
       THEN reviews
       ELSE [reviews |->
                SelectSeq(reviews.reviews, LAMBDA r : r.id # review_id),
             statistics |->
                [reviews.statistics EXCEPT
                    !.total_reviews = @ - 1,
                    !.rating_distribution[review.rating] = @ - 1],
             verified_reviews |->
                IF review.verified_purchase
                THEN reviews.verified_reviews - 1
                ELSE reviews.verified_reviews,
             featured_reviews |-> remove(reviews.featured_reviews, review.id)]

\* a call of add_review; total_reviews is kept within the bound as well,
\* because it does not always go down with the list
AddReview ==
    /\ Len(reviews.reviews) < MaxReviews
    /\ reviews.statistics.total_reviews <= MaxReviews
    /\ \E sender \in Senders, rating \in Ratings,
          comment \in {CommentTen, CommentLong}, order_id \in OrderIds :
          reviews' = add_review_order(sender.user_id, sender.username, rating,
                                      comment, order_id)
    /\ UNCHANGED <<support_tickets, support_stats, now, mon, escalate_calls,
                   escalation_alerts, call, inbound, env, disk, race, front,
                   user_states, reviewed>>

\* a call of delete_review
DeleteReview ==
    /\ \E review_id \in ReviewIdArgs : reviews' = delete_review(review_id)
    /\ UNCHANGED <<support_tickets, support_stats, now, mon, escalate_calls,
                   escalation_alerts, call, inbound, env, disk, race, front,
                   user_states, reviewed>>

StoreNext ==
    \/ AddReview
    \/ DeleteReview

StoreSpec == Init /\ [][StoreNext]_vars

\* ------------------------------------------------ the ticket store on disk
\* The values json.dump is handed: an int, a str, None, a bool, a list, and
\* a dict as the sequence of its (key, value) items in insertion order.
PyInt(n) == [py |-> "int", v |-> n]
PyStr(s) == [py |-> "str", v |-> s]
PyNone == [py |-> "None", v |-> 0]
PyBool(b) == [py |-> "bool", v |-> b]
PyList(items) == [py |-> "list", v |-> items]
PyDict(items) == [py |-> "dict", v |-> items]

\* datetime.isoformat(): the text of a time
isoformat(t) == ToString(t)

\* the name json.dump writes for a dict key: keys that are not str are
\* turned into text
json_key(k) ==
    CASE k.py = "str" -> k.v
      [] k.py = "int" -> ToString(k.v)
      [] k.py = "bool" -> (IF k.v THEN "true" ELSE "false")
      [] k.py = "None" -> "null"

RECURSIVE json_dump(_)
json_dump_SkipNone(x) ==
    CASE x.py = "int" -> [json |-> "number", v |-> x.v]
      [] x.py = "str" -> [json |-> "string", v |-> x.v]
      [] x.py = "None" -> [json |-> "null", v |-> 0]
      [] x.py = "bool" -> [json |-> IF x.v THEN "true" ELSE "false", v |-> 0]
      [] x.py = "list" ->
            [json |-> "array", v |-> [k \in 1..Len(x.v) |-> json_dump(x.v[k])]]
      [] x.py = "dict" ->
            LET HasValue(item) == item[2].py # "None"
                items == SelectSeq(x.v, HasValue)
            IN [json |-> "object",
                v |-> [k \in 1..Len(items) |->
                          <<json_key(items[k][1]), json_dump(items[k][2])>>]]

\* line 89: the document json.dump writes for a value
json_dump(x) ==
    CASE x.py = "int" -> [json |-> "number", v |-> x.v]
      [] x.py = "str" -> [json |-> "string", v |-> x.v]
      [] x.py = "None" -> [json |-> "null", v |-> 0]
      [] x.py = "bool" -> [json |-> IF x.v THEN "true" ELSE "false", v |-> 0]
      [] x.py = "list" ->
            [json |-> "array", v |-> [k \in 1..Len(x.v) |-> json_dump(x.v[k])]]
      [] x.py = "dict" ->
            [json |-> "object",
             v |-> [k \in 1..Len(x.v) |->
                       <<json_key(x.v[k][1]), json_dump(x.v[k][2])>>]]

\* line 76: the value json.load builds from a document
RECURSIVE json_load(_)
json_load(j) ==
    CASE j.json = "number" -> PyInt(j.v)
      [] j.json = "string" -> PyStr(j.v)
      [] j.json = "null" -> PyNone
      [] j.json = "true" -> PyBool(TRUE)
      [] j.json = "false" -> PyBool(FALSE)
      [] j.json = "array" -> PyList([k \in 1..Len(j.v) |-> json_load(j.v[k])])
      [] j.json = "object" ->
            PyDict([k \in 1..Len(j.v) |-> <<PyStr(j.v[k][1]), json_load(j.v[k][2])>>])

\* What the tickets of the model do not record of a ticket dict: whether
\* the ticket has changed since its creation (updated_at, also the timestamp
\* of its responses, is then the present time) and whether
\* update_ticket_status has stamped it (updated_by), as resolve_ticket
\* does, with the admin whose calls are modelled.
StampAdmin == admin_users[1]
Unrecorded == [changed : BOOLEAN, has_updated_by : BOOLEAN]
UpdatedAt(ticket, h) == IF h.changed THEN now ELSE ticket.created_at

\* lines 194-200: a response dict
PyResponse(response, updated_at) ==
    PyDict(<<
        <<PyStr("id"), PyInt(response.id)>>,
        <<PyStr("responder_id"), PyInt(response.responder_id)>>,
        <<PyStr("response"), PyStr(response.response)>>,
        <<PyStr("is_admin"), PyBool(response.is_admin)>>,
        <<PyStr("timestamp"), PyStr(isoformat(updated_at))>> >>)

\* lines 138-151: a ticket dict, with the keys resolve_ticket (line 222),
\* update_ticket_status (line 483) and escalate_ticket (line 557) add to it
PyTicket(ticket, h) ==
    PyDict(
        <<
        <<PyStr("id"), PyInt(ticket.id)>>,
        <<PyStr("user_id"), PyInt(ticket.user_id)>>,
        <<PyStr("username"), PyStr(ticket.username)>>,
        <<PyStr("category"), PyStr(ticket.category)>>,
        <<PyStr("message"), PyStr(ticket.message)>>,
        <<PyStr("status"), PyStr(ticket.status)>>,
        <<PyStr("priority"), PyStr(ticket.priority)>>,
        <<PyStr("created_at"), PyStr(isoformat(ticket.created_at))>>,
        <<PyStr("updated_at"), PyStr(isoformat(UpdatedAt(ticket, h)))>>,
        <<PyStr("responses"),
          PyList([k \in 1..Len(ticket.responses) |->
                     PyResponse(ticket.responses[k], UpdatedAt(ticket, h))])>>,
        <<PyStr("assigned_to"), PyNone>>,
        <<PyStr("resolution"),
          IF ticket.resolution = NULL THEN PyNone ELSE PyStr(ticket.resolution)>>
        >>
        \o (IF ticket.resolution = NULL
            THEN <<>> ELSE << <<PyStr("resolved_by"), PyInt(StampAdmin)>> >>)
        \o (IF h.has_updated_by
            THEN << <<PyStr("updated_by"), PyInt(StampAdmin)>> >> ELSE <<>>)
        \o (IF ticket.escalated
            THEN << <<PyStr("escalated"), PyBool(TRUE)>> >> ELSE <<>>))

\* self.support_tickets as json.dump gets it (line 89)
PyStore(h) ==
    PyDict(<<
        <<PyStr("tickets"),
          PyList([i \in 1..Len(support_tickets.tickets) |->
                     PyTicket(support_tickets.tickets[i], h)])>>,
        <<PyStr("next_ticket_id"), PyInt(support_tickets.next_ticket_id)>>,
        <<PyStr("active_tickets"), PyInt(support_tickets.active_tickets)>>,
        <<PyStr("resolved_tickets"), PyInt(support_tickets.resolved_tickets)>> >>)

\* ============================================================ properties
Tickets == support_tickets.tickets
TicketIdx == 1..Len(Tickets)

\* C1: ticket ids are 1, 2, 3, ... in creation order: the k-th ticket of the
\* store has id k (so ids are strictly increasing from 1 and no two tickets
\* share one), and next_ticket_id, the id the next create call returns, is
\* one more than the number of tickets created.
C1_SequentialIds ==
    /\ \A i \in TicketIdx : Tickets[i].id = i
    /\ support_tickets.next_ticket_id = Len(Tickets) + 1
    /\ ReturnedId = Len(Tickets) + 1

\* two tickets created with another lifecycle operation in between
C1_Witness ==
    /\ Len(Tickets) = 2
    /\ Tickets[1].status = "resolved"
    /\ Tickets[2].created_at > 0
    /\ Tickets[2].id = 2

\* C2: in every reachable state active_tickets equals the number of tickets
\* whose status is "open".
C2_ActiveEqualsOpen ==
    support_tickets.active_tickets = CountStatus(Tickets, "open")

\* C3: resolve_ticket on a ticket that is already resolved leaves
\* active_tickets and resolved_tickets as they were.
C3_ResolveTwiceKeepsCounters ==
    [][\A t \in TicketIds, r \in Resolutions :
        (/\ get_ticket_by_id(t) # 0
         /\ Tickets[get_ticket_by_id(t)].status = "resolved"
         /\ resolve_ticket(t, r))
        => /\ support_tickets'.active_tickets = support_tickets.active_tickets
           /\ support_tickets'.resolved_tickets = support_tickets.resolved_tickets
           /\ support_tickets'.active_tickets >= 0]_vars

\* C4: in every reachable state active_tickets is at least zero.
C4_ActiveNonNegative == support_tickets.active_tickets >= 0

\* C5: escalate_ticket is called at most once for each ticket and each admin
\* is sent at most one escalation alert for it, whatever the monitor passes
\* and the status changes in between.
C5_EscalatedAtMostOnce ==
    \A t \in TicketIds :
        /\ escalate_calls[t] <= 1
        /\ \A a \in Admins : escalation_alerts[t][a] <= 1

\* a later pass examines a ticket that an earlier pass escalated and that is
\* open again after having been taken out of "open"
C5_Witness ==
    /\ mon.pc = "loop"
    /\ mon.idx <= Len(mon.open_tickets)
    /\ LET i == mon.open_tickets[mon.idx]
       IN /\ Tickets[i].escalated
          /\ Tickets[i].status = "open"
          /\ i \notin mon.escalated_in_pass
          /\ escalate_calls[Tickets[i].id] = 1
          /\ escalation_alerts[Tickets[i].id] = [a \in Admins |-> 1]

\* the monitor has gone through its whole list without an exception
PassComplete == mon.pc = "loop" /\ mon.idx > Len(mon.open_tickets)

Eligible(i) ==
    /\ i <= Len(Tickets)
    /\ Tickets[i].status = "open"
    /\ ~Tickets[i].escalated
    /\ now - Tickets[i].created_at > Day

C8_ResolvedHasResolution ==
    \A i \in TicketIdx :
        Tickets[i].status = "resolved" => Tickets[i].resolution # NULL

\* C9: every ticket's status is one of open, in_progress, pending,
\* resolved, closed.
C9_StatusInEnumeration ==
    \A i \in TicketIdx : Tickets[i].status \in Statuses

\* C10 (as stated): once a ticket's status is "resolved", no step changes it.
C10_ResolvedIsTerminal ==
    [][\A i \in TicketIdx :
        Tickets[i].status = "resolved"
        => support_tickets'.tickets[i].status = "resolved"]_vars

\* C10 (amended): a resolved ticket's status is changed by no operation
\* other than update_ticket_status on that ticket: add_ticket_response,
\* resolve_ticket and the escalation monitor leave it "resolved".
C10_OnlyUpdateStatusLeavesResolved ==
    [][\A i \in TicketIdx :
        (/\ Tickets[i].status = "resolved"
         /\ support_tickets'.tickets[i].status # "resolved")
        => \E s \in StatusArgs : update_ticket_status(Tickets[i].id, s)]_vars

\* the only ticket of the store is resolved after resolve_ticket has run
\* twice, an answer has been added and the monitor has escalated it
C10_Witness ==
    /\ Len(Tickets) = 1
    /\ Tickets[1].status = "resolved"
    /\ Tickets[1].resolution # NULL
    /\ Len(Tickets[1].responses) > 0
    /\ Tickets[1].escalated
    /\ support_tickets.resolved_tickets = 2

\* C11: tickets are never deleted and their identity never changes: every
\* step keeps every ticket of the store at its place with the same id,
\* user_id, category and message, and an id that get_ticket_by_id finds is
\* found by it, as the same ticket, after the step.
C11_TicketsNeverDeleted ==
    [][/\ Len(support_tickets'.tickets) >= Len(Tickets)
       /\ \A i \in TicketIdx :
            /\ support_tickets'.tickets[i].id = Tickets[i].id
            /\ support_tickets'.tickets[i].user_id = Tickets[i].user_id
            /\ support_tickets'.tickets[i].category = Tickets[i].category
            /\ support_tickets'.tickets[i].message = Tickets[i].message
       /\ \A t \in TicketIdArgs :
            get_ticket_by_id(t) # 0
            => get_ticket_by_id(t)' = get_ticket_by_id(t)]_vars

\* the first ticket has been answered, escalated, resolved and then given
\* another status, and a second ticket was created after it
C11_Witness ==
    /\ Len(Tickets) = 2
    /\ Tickets[1].status = "archived"
    /\ Tickets[1].resolution # NULL
    /\ Tickets[1].escalated
    /\ Len(Tickets[1].responses) > 0
    /\ Tickets[1].message = "my btc payment failed"
    /\ get_ticket_by_id(1) = 1

\* C12: the resolved_tickets counter of the ticket store and the one of the
\* stats store both equal the number of tickets whose status is "resolved".
C12_ResolvedCountersMatch ==
    /\ support_tickets.resolved_tickets = CountStatus(Tickets, "resolved")
    /\ support_stats.resolved_tickets = CountStatus(Tickets, "resolved")

Categories == {r.category : r \in Requests}

\* the count of a bucket, 0 for a bucket that does not exist yet
Bucket(d, k) == IF k \in DOMAIN d THEN d[k] ELSE 0

RECURSIVE SumBuckets(_, _)
SumBuckets(d, ks) ==
    IF ks = {} THEN 0
    ELSE LET k == CHOOSE x \in ks : TRUE
         IN d[k] + SumBuckets(d, ks \ {k})

\* C13: starting from the empty stores, total_tickets is the number of
\* tickets, every category bucket is the number of tickets of that category
\* (and there is no bucket for anything else), and the daily buckets add up
\* to total_tickets.
C13_StatsCountTickets ==
    /\ support_stats.total_tickets = Len(Tickets)
    /\ DOMAIN support_stats.category_stats \subseteq Categories
    /\ \A c \in Categories :
          Bucket(support_stats.category_stats, c) =
              Cardinality({i \in TicketIdx : Tickets[i].category = c})
    /\ SumBuckets(support_stats.daily_tickets,
                  DOMAIN support_stats.daily_tickets)
          = support_stats.total_tickets

\* two tickets of one category created on different days, the first of
\* them resolved since
C13_Witness ==
    /\ Len(Tickets) = 2
    /\ Tickets[1].category = Tickets[2].category
    /\ Today(Tickets[1].created_at) # Today(Tickets[2].created_at)
    /\ Tickets[1].status = "resolved"
    /\ support_stats.category_stats[Tickets[1].category] = 2

\* ------------------------------------------- the request path, call by call
TicketsAfter == support_tickets'.tickets

\* a ticket of the store has this id, and its place in the store
KnownId(t) == \E i \in TicketIdx : Tickets[i].id = t
TicketAt(t) == CHOOSE i \in TicketIdx : Tickets[i].id = t

\* the step leaves every ticket other than the one at place i as it was
OthersKept(i) ==
    /\ Len(TicketsAfter) = Len(Tickets)
    /\ \A j \in TicketIdx : j # i => TicketsAfter[j] = Tickets[j]

\* C14: create_support_ticket adds exactly one ticket, with status "open",
\* priority "medium", no responses, no resolution and the user_id, username,
\* category and message it was given; it adds one to next_ticket_id,
\* active_tickets, total_tickets, today's daily bucket and the category's
\* bucket; it leaves every existing ticket and both resolved counters as
\* they were; and it sends every admin of the roster one new-ticket notice.
C14_CreateAddsOneTicket ==
    [][\A r \in Requests :
        create_support_ticket(r.user_id, r.username, r.category, r.message)
        => LET n == Len(Tickets)
               new == TicketsAfter[n + 1]
               stats == support_stats
               after == support_stats'
           IN /\ Len(TicketsAfter) = n + 1
              /\ \A i \in TicketIdx : TicketsAfter[i] = Tickets[i]
              /\ new.user_id = r.user_id /\ new.username = r.username
              /\ new.category = r.category /\ new.message = r.message
              /\ new.status = "open" /\ new.priority = "medium"
              /\ new.responses = <<>> /\ new.resolution = NULL
              /\ support_tickets'.next_ticket_id =
                    support_tickets.next_ticket_id + 1
              /\ support_tickets'.active_tickets =
                    support_tickets.active_tickets + 1
              /\ after.total_tickets = stats.total_tickets + 1
              /\ \A d \in 1..(MaxTime + 1) :
                    Bucket(after.daily_tickets, d) =
                        Bucket(stats.daily_tickets, d)
                            + (IF d = Today(now) THEN 1 ELSE 0)
              /\ \A c \in Categories :
                    Bucket(after.category_stats, c) =
                        Bucket(stats.category_stats, c)
                            + (IF c = r.category THEN 1 ELSE 0)
              /\ support_tickets'.resolved_tickets =
                    support_tickets.resolved_tickets
              /\ after.resolved_tickets = stats.resolved_tickets
              /\ Len(call'.sent) = Cardinality(Admins)
              /\ \A a \in Admins :
                    Cardinality({k \in 1..Len(call'.sent) :
                        call'.sent[k] = Notice(a, "new_ticket", new.id,
                                               r.message)}) = 1]_vars

\* a second ticket has just been created next to a resolved one, and the
\* two admins have been sent its notice
C14_Witness ==
    /\ call.op = "create_support_ticket"
    /\ call.ret = 2
    /\ Len(Tickets) = 2
    /\ Tickets[1].status = "resolved"
    /\ Tickets[2].category = Tickets[1].category
    /\ Len(call.sent) = 2

\* C15: resolve_ticket on an open ticket sets its status to "resolved" and
\* its resolution to the text it was given, takes active_tickets down by
\* exactly one (back to its value before the ticket was created when nothing
\* else changed in between), adds exactly one to both resolved counters,
\* changes no other ticket and sends the owner one resolution notice.
C15_ResolveOpenTicket ==
    [][\A t \in TicketIds, r \in Resolutions :
        (/\ KnownId(t)
         /\ Tickets[TicketAt(t)].status = "open"
         /\ resolve_ticket(t, r))
        => LET i == TicketAt(t)
           IN /\ TicketsAfter[i].status = "resolved"
              /\ TicketsAfter[i].resolution = r
              /\ support_tickets'.active_tickets =
                    support_tickets.active_tickets - 1
              /\ support_tickets'.resolved_tickets =
                    support_tickets.resolved_tickets + 1
              /\ support_stats'.resolved_tickets =
                    support_stats.resolved_tickets + 1
              /\ OthersKept(i)
              /\ call'.ret = TRUE
              /\ call'.sent =
                    <<Notice(Tickets[i].user_id, "resolved", t, r)>>]_vars

\* the second ticket was open and has just been resolved, and its owner
\* has been sent the notice
C15_Witness ==
    /\ call.op = "resolve_ticket"
    /\ call.ticket_id = 2
    /\ call.ret = TRUE
    /\ Len(Tickets) = 2
    /\ Tickets[1].status = "open"
    /\ Tickets[2].status = "resolved"
    /\ support_tickets.active_tickets = 1
    /\ support_tickets.resolved_tickets = 1
    /\ call.sent = <<Notice(Tickets[2].user_id, "resolved", 2, "refunded")>>

\* any of the three operations by id, called with this ticket id
CallById(t) ==
    \/ \E r \in ThreadReplies :
          add_ticket_response(t, r.responder_id, r.response, r.is_admin)
    \/ \E r \in Resolutions : resolve_ticket(t, r)
    \/ \E s \in StatusArgs : update_ticket_status(t, s)

\* C16: add_ticket_response, resolve_ticket and update_ticket_status called
\* with an id that no ticket has return False, leave the ticket store, the
\* stats store and everything else as they were, write nothing to disk and
\* send no notification; get_ticket_by_id finds nothing for that id.
C16_UnknownIdChangesNothing ==
    [][\A t \in TicketIdArgs :
        (~KnownId(t) /\ CallById(t))
        => /\ call'.ret = FALSE
           /\ call'.saved = <<>>
           /\ call'.sent = <<>>
           /\ UNCHANGED <<support_tickets, support_stats, now, mon,
                          escalate_calls, escalation_alerts, inbound>>
           /\ get_ticket_by_id(t) = 0
           /\ get_ticket_by_id(t)' = 0]_vars

\* update_ticket_status has just been called with id 3 on a store of two
\* tickets, after calls that did find their ticket
C16_Witness ==
    /\ call.op = "update_ticket_status"
    /\ call.ticket_id = 3
    /\ call.ret = FALSE
    /\ Len(Tickets) = 2
    /\ Tickets[2].status = "resolved"
    /\ Len(Tickets[1].responses) > 0

\* C17: update_ticket_status on an existing ticket sets its status to
\* new_status; active_tickets goes down by one, but not below zero, when
\* the ticket goes from "open" to another status, up by one when it goes
\* from another status to "open", and stays as it is otherwise; the owner is
\* sent one status notice that names the new status.
C17_UpdateStatus ==
    [][\A t \in TicketIds, s \in StatusArgs :
        (KnownId(t) /\ update_ticket_status(t, s))
        => LET i == TicketAt(t)
               old == Tickets[i].status
               active == support_tickets.active_tickets
           IN /\ TicketsAfter[i].status = s
              /\ OthersKept(i)
              /\ (old = "open" /\ s # "open" /\ active >= 1)
                    => support_tickets'.active_tickets = active - 1
              /\ (old = "open" /\ s # "open" /\ active < 1)
                    => support_tickets'.active_tickets = 0
              /\ (old # "open" /\ s = "open")
                    => support_tickets'.active_tickets = active + 1
              /\ ((old = "open") <=> (s = "open"))
                    => support_tickets'.active_tickets = active
              /\ call'.ret = TRUE
              /\ call'.sent = <<Notice(Tickets[i].user_id, "status_update",
                                       t, StatusText(s))>>]_vars

\* the only ticket was resolved twice, reopened, and has just been taken out
\* of "open" with active_tickets at zero
C17_Witness ==
    /\ call.op = "update_ticket_status"
    /\ call.ret = TRUE
    /\ Len(Tickets) = 1
    /\ Tickets[1].status = "in_progress"
    /\ support_tickets.resolved_tickets = 2
    /\ support_tickets.active_tickets = 0
    /\ call.sent = <<Notice(42, "status_update", 1, "In Progress")>>

\* s is the beginning of t
IsPrefix(s, t) == Len(s) <= Len(t) /\ SubSeq(t, 1, Len(s)) = s

\* C18: the responses of a ticket are append-only with the ids 1, 2, 3, ...
\* in order: no step changes or removes a response that is there;
\* add_ticket_response adds one response, changes neither the status of the
\* ticket nor any counter, and the owner is sent a notice if and only if
\* is_admin is true.
C18_ResponsesAppendOnly ==
    [][/\ \A i \in TicketIdx :
            IsPrefix(Tickets[i].responses, TicketsAfter[i].responses)
       /\ \A i \in 1..Len(TicketsAfter) :
            \A k \in 1..Len(TicketsAfter[i].responses) :
                TicketsAfter[i].responses[k].id = k
       /\ \A t \in TicketIds, r \in ThreadReplies :
            (/\ KnownId(t)
             /\ add_ticket_response(t, r.responder_id, r.response, r.is_admin))
            => LET i == TicketAt(t)
               IN /\ TicketsAfter[i].responses = Append(Tickets[i].responses,
                        [id |-> Len(Tickets[i].responses) + 1,
                         responder_id |-> r.responder_id,
                         response |-> r.response, is_admin |-> r.is_admin])
                  /\ TicketsAfter[i].status = Tickets[i].status
                  /\ OthersKept(i)
                  /\ support_tickets'.next_ticket_id =
                        support_tickets.next_ticket_id
                  /\ support_tickets'.active_tickets =
                        support_tickets.active_tickets
                  /\ support_tickets'.resolved_tickets =
                        support_tickets.resolved_tickets
                  /\ support_stats' = support_stats
                  /\ r.is_admin
                        => call'.sent = <<Notice(Tickets[i].user_id,
                                            "response", t, r.response)>>
                  /\ ~r.is_admin => call'.sent = <<>>]_vars

\* the owner has just added the second response of a resolved ticket, after
\* an admin's answer, and nobody was notified
C18_Witness ==
    /\ call.op = "add_ticket_response"
    /\ call.ret = TRUE
    /\ call.sent = <<>>
    /\ Len(Tickets) = 2
    /\ Tickets[call.ticket_id].status = "resolved"
    /\ Len(Tickets[call.ticket_id].responses) = 2
    /\ Tickets[call.ticket_id].responses[1].is_admin
    /\ ~Tickets[call.ticket_id].responses[2].is_admin

\* --------------------------------------------------------- the classifier
\* the phrase occurs somewhere in the text
Occurs(phrase, text) ==
    \E i \in 1..(Len(text) + 1) : IsPrefix(phrase, SubSeq(text, i, Len(text)))

\* the text, whatever the case of its letters, has one of these phrases
HasPhrase(text, phrases) ==
    \E k \in 1..Len(phrases) : Occurs(phrases[k], lower(text))

Analysed == inbound.auto_response # "unset"

TalkToSomeone ==
    <<"t", "a", "l", "k", " ", "t", "o", " ", "s", "o", "m", "e", "o", "n", "e">>
BitcoinAddress ==
    <<"b", "i", "t", "c", "o", "i", "n", " ", "a", "d", "d", "r", "e", "s", "s">>

\* C19: a message with "talk to someone", or with any other phrase of the
\* human-agent list, gets no match from analyze_message_for_auto_response,
\* whatever category keywords it has as well.
C19_HumanPhraseMeansNoMatch ==
    (/\ Analysed
     /\ \/ Occurs(TalkToSomeone, lower(inbound.message))
        \/ HasPhrase(inbound.message, human_agent_keywords))
    => inbound.auto_response = NULL

\* a text with "talk to someone" and the keywords of two categories as well
\* has been analysed
C19_Witness ==
    /\ Analysed
    /\ Occurs(TalkToSomeone, inbound.message)
    /\ Occurs(BitcoinAddress, inbound.message)
    /\ HasPhrase(inbound.message, order_status_keywords)
    /\ inbound.auto_response = NULL

\* C20 (as stated): every text with "bitcoin address" and no human-agent
\* phrase is classified into payment_help, whatever else is in the text.
C20_BitcoinAddressIsPayment ==
    (/\ Analysed
     /\ Occurs(BitcoinAddress, lower(inbound.message))
     /\ ~HasPhrase(inbound.message, human_agent_keywords))
    => inbound.auto_response = "payment_help"

\* C20 (amended): a text with "bitcoin address", no human-agent phrase and
\* no keyword of the two categories that come before payment_help in the
\* table (greeting, order_status) is classified into payment_help.
C20_BitcoinAddressAfterEarlierCategories ==
    (/\ Analysed
     /\ Occurs(BitcoinAddress, lower(inbound.message))
     /\ ~HasPhrase(inbound.message, human_agent_keywords)
     /\ ~HasPhrase(inbound.message, greeting_keywords)
     /\ ~HasPhrase(inbound.message, order_status_keywords))
    => inbound.auto_response = "payment_help"

\* "Bitcoin Address" in capitals, after other words and before a keyword of
\* a later category, has been classified into payment_help
C20_Witness ==
    /\ Analysed
    /\ inbound.auto_response = "payment_help"
    /\ ~Occurs(BitcoinAddress, inbound.message)
    /\ Occurs(BitcoinAddress, lower(inbound.message))
    /\ ~IsPrefix(BitcoinAddress, lower(inbound.message))
    /\ HasPhrase(inbound.message, product_info_keywords)

\* the categories in the order of the table, and the keywords of each
CategoryOrder ==
    <<"greeting", "order_status", "payment_help", "product_info",
      "shipping_delivery", "refund_return", "technical_issues",
      "general_help">>

KeywordsOf(category) ==
    CASE category = "greeting" -> greeting_keywords
      [] category = "order_status" -> order_status_keywords
      [] category = "payment_help" -> payment_help_keywords
      [] category = "product_info" -> product_info_keywords
      [] category = "shipping_delivery" -> shipping_delivery_keywords
      [] category = "refund_return" -> refund_return_keywords
      [] category = "technical_issues" -> technical_issues_keywords
      [] category = "general_help" -> general_help_keywords

\* the k-th category of the table has a keyword in the lower-cased text
CategoryHit(k, text) == HasPhrase(text, KeywordsOf(CategoryOrder[k]))

\* C21: for a text with no human-agent phrase the classifier answers with
\* the earliest category of the table (greeting, order_status, payment_help,
\* product_info, shipping_delivery, refund_return, technical_issues,
\* general_help) that has a keyword in the lower-cased text, and with no
\* match when no category has one.
C21_FirstMatchWins ==
    (Analysed /\ ~HasPhrase(inbound.message, human_agent_keywords))
    => \/ \E k \in 1..Len(CategoryOrder) :
             /\ CategoryHit(k, inbound.message)
             /\ \A j \in 1..(k - 1) : ~CategoryHit(j, inbound.message)
             /\ inbound.auto_response = CategoryOrder[k]
       \/ /\ \A k \in 1..Len(CategoryOrder) : ~CategoryHit(k, inbound.message)
          /\ inbound.auto_response = NULL

\* a text that starts with a refund keyword and has an order keyword and a
\* general-help keyword after it has been answered with order_status
C21_Witness ==
    /\ Analysed
    /\ IsPrefix(<<"r", "e", "f", "u", "n", "d">>, inbound.message)
    /\ HasPhrase(inbound.message, order_status_keywords)
    /\ HasPhrase(inbound.message, general_help_keywords)
    /\ ~HasPhrase(inbound.message, greeting_keywords)
    /\ inbound.auto_response = "order_status"

\* the user ids get_user_tickets is asked for, one of them without tickets
UserIdArgs == {r.user_id : r \in Requests} \cup {99}

\* C24: get_user_tickets(user_id) returns exactly the tickets whose user_id
\* matches, each once, in creation order (increasing ticket id), and no
\* ticket of another user.
C24_UserTickets ==
    \A u \in UserIdArgs :
        LET r == get_user_tickets(u)
            own == {i \in TicketIdx : Tickets[i].user_id = u}
        IN /\ \A k \in 1..Len(r) : r[k].user_id = u
           /\ \A i \in own :
                 Cardinality({k \in 1..Len(r) : r[k] = Tickets[i]}) = 1
           /\ Len(r) = Cardinality(own)
           /\ \A j, k \in 1..Len(r) : j < k => r[j].id < r[k].id

\* both tickets of the store are alice's, one of them resolved: her list
\* has the two in creation order and bob's list is empty
C24_Witness ==
    /\ Len(Tickets) = 2
    /\ \A i \in TicketIdx : Tickets[i].user_id = 42
    /\ Tickets[1].status = "resolved"
    /\ Len(get_user_tickets(42)) = 2
    /\ get_user_tickets(42)[1].id = 1
    /\ get_user_tickets(42)[2].id = 2
    /\ get_user_tickets(43) = <<>>

DiskIsMemory ==
    disk = [support_tickets |-> support_tickets, support_stats |-> support_stats]

\* the chats the send_message calls of a list go to
ChatsOf(sent) == {sent[k].chat_id : k \in 1..Len(sent)}

\* C23: notification is best-effort.  While send_message raises for one or
\* for all recipients, create_support_ticket, add_ticket_response,
\* resolve_ticket and update_ticket_status still complete: they return their
\* success value, the change is in memory and the data files hold it; and a
\* send that fails for one admin does not keep the new-ticket notice from
\* the other admins.
C23_NotificationBestEffort ==
    [][(env.write = "none" /\ env.down # {})
       => /\ \A r \in Requests :
                create_support_ticket(r.user_id, r.username, r.category, r.message)
                => /\ ~call'.raised
                   /\ call'.ret = support_tickets.next_ticket_id
                   /\ Len(TicketsAfter) = Len(Tickets) + 1
                   /\ TicketsAfter[Len(TicketsAfter)].user_id = r.user_id
                   /\ DiskIsMemory'
                   /\ ChatsOf(call'.sent) = Admins
                   /\ ChatsOf(call'.undelivered) = Admins \cap env.down
          /\ \A t \in TicketIds :
                KnownId(t)
                => LET i == TicketAt(t)
                   IN /\ \A r \in Replies :
                            add_ticket_response(t, r.responder_id, r.response,
                                                r.is_admin)
                            => /\ ~call'.raised
                               /\ call'.ret = TRUE
                               /\ Len(TicketsAfter[i].responses) =
                                     Len(Tickets[i].responses) + 1
                               /\ disk'.support_tickets = support_tickets'
                      /\ \A r \in Resolutions :
                            resolve_ticket(t, r)
                            => /\ ~call'.raised
                               /\ call'.ret = TRUE
                               /\ TicketsAfter[i].status = "resolved"
                               /\ TicketsAfter[i].resolution = r
                               /\ DiskIsMemory'
                               /\ ChatsOf(call'.sent) = {Tickets[i].user_id}
                      /\ \A st \in StatusArgs :
                            update_ticket_status(t, st)
                            => /\ ~call'.raised
                               /\ call'.ret = TRUE
                               /\ TicketsAfter[i].status = st
                               /\ DiskIsMemory'
                               /\ ChatsOf(call'.sent) = {Tickets[i].user_id}]_vars

\* the send to the first admin has failed, the second admin has been sent
\* the notice, the ticket is in memory and on disk and its id was returned
C23_Witness ==
    /\ env = [write |-> "none", down |-> {admin_users[1]}]
    /\ call.op = "create_support_ticket"
    /\ ~call.raised
    /\ call.ret = 1
    /\ Len(Tickets) = 1
    /\ DiskIsMemory
    /\ Len(call.sent) = 2
    /\ call.sent[2].chat_id = admin_users[2]
    /\ ChatsOf(call.undelivered) = {admin_users[1]}

\* the files an operation writes, in order
FilesOf(op) ==
    IF op = "add_ticket_response" THEN SavedTickets ELSE SavedBoth

\* the step is a call of the operation on a ticket of the store, or a create
CallOf(op) ==
    CASE op = "create_support_ticket" ->
            \E r \in Requests :
                create_support_ticket(r.user_id, r.username, r.category, r.message)
      [] op = "add_ticket_response" ->
            \E t \in TicketIds, r \in Replies :
                KnownId(t) /\ add_ticket_response(t, r.responder_id, r.response,
                                                  r.is_admin)
      [] op = "resolve_ticket" ->
            \E t \in TicketIds, r \in Resolutions :
                KnownId(t) /\ resolve_ticket(t, r)
      [] op = "update_ticket_status" ->
            \E t \in TicketIds, st \in StatusArgs :
                KnownId(t) /\ update_ticket_status(t, st)

Operations ==
    {"create_support_ticket", "add_ticket_response", "resolve_ticket",
     "update_ticket_status"}

\* C27: when a write of the store fails during create_support_ticket,
\* add_ticket_response, resolve_ticket or update_ticket_status, the
\* operation stops there: it raises instead of returning its success value,
\* the files after the failing one are not written and no notification is
\* sent for the change.
C27_WriteFailureAborts ==
    [][\A op \in Operations :
        (/\ \E k \in 1..Len(FilesOf(op)) : FilesOf(op)[k] = env.write
         /\ CallOf(op))
        => /\ call'.raised
           /\ call'.sent = <<>>
           /\ env.write = "support_tickets"
              => (call'.saved = <<>> /\ disk' = disk)
           /\ env.write = "support_stats"
              => /\ call'.saved = <<"support_tickets">>
                 /\ disk'.support_tickets = support_tickets'
                 /\ disk'.support_stats = disk.support_stats]_vars

\* resolve_ticket has raised in the write of the stats file: the ticket file
\* has the resolved ticket, the stats file has not the new count, and the
\* owner has not been told
C27_Witness ==
    /\ env.write = "support_stats"
    /\ call.op = "resolve_ticket"
    /\ call.raised
    /\ call.sent = <<>>
    /\ call.saved = <<"support_tickets">>
    /\ Len(Tickets) = 1
    /\ Tickets[1].status = "resolved"
    /\ disk.support_tickets = support_tickets
    /\ disk.support_stats.resolved_tickets < support_stats.resolved_tickets

\* =================================================== two threads, one file
\* C28: whatever the interleaving of a request-path operation with an
\* escalation scan, no update is lost: once both are through, the ticket
\* file can be read back and holds the store that is in memory, with both
\* changes.
C28_NoLostUpdate ==
    (Quiet /\ Len(Tickets) > 0)
    => /\ Loadable
       /\ disk.support_tickets = support_tickets

\* ======================================================= message handlers
\* the texts that cancel a session, in the letter cases that are sent
CancelTexts == {TextCancel, TextStop, TextExit}

\* the handler has run on this message of this sender
HandlerRan(sender, text, transactional) ==
    /\ handled'.user_id = sender.user_id
    /\ handled'.text = text
    /\ handle_support_message(sender, text, transactional)

\* the user has a ticket-creation session
InSession(user_id) == support_states[user_id].action = "creating_ticket"

\* C25: the message handler creates a ticket only for a user who has an
\* active 'creating_ticket' session; the ticket has the category of that
\* session, the sender as owner and the text as message; one message
\* submitted gives exactly one ticket; cancel, stop and exit, in any letter
\* case, give none.
C25_TicketOnlyInSession ==
    [][\A sender \in Senders, text \in HandlerTexts, tr \in BOOLEAN :
        HandlerRan(sender, text, tr)
        => IF InSession(sender.user_id) /\ text \notin CancelTexts
           THEN LET n == Len(TicketsAfter)
                IN /\ n = Len(Tickets) + 1
                   /\ \A i \in TicketIdx : TicketsAfter[i] = Tickets[i]
                   /\ TicketsAfter[n].user_id = sender.user_id
                   /\ TicketsAfter[n].category =
                         support_states[sender.user_id].category
                   /\ TicketsAfter[n].message = text
                   /\ TicketsAfter[n].status = "open"
           ELSE UNCHANGED <<support_tickets, support_stats>>]_vars

\* the user without a username has submitted a text in an Order Issues
\* session while the other user's session is open: the one ticket of the
\* store is theirs
C25_Witness ==
    /\ handled.reply = "created"
    /\ handled.user_id = 43
    /\ handled.ticket_id = 1
    /\ Len(Tickets) = 1
    /\ Tickets[1].user_id = 43
    /\ Tickets[1].username = "Unknown"
    /\ Tickets[1].category = "Order Issues"
    /\ Tickets[1].message = TextParcelLost
    /\ InSession(42)

C29_ShortTextRejected ==
    [][\A sender \in Senders, tr \in BOOLEAN :
        (/\ InSession(sender.user_id)
         /\ HandlerRan(sender, TextOneLetter, tr))
        => /\ UNCHANGED <<support_tickets, support_stats>>
           /\ support_states' = support_states
           /\ handled'.reply # "created"]_vars

\* ================================================================ reviews
\* C30: in the comment step of the review dialogue a comment shorter than
\* 10 characters is rejected: no review is added, no review statistic
\* changes, and the writing_review state with the chosen rating is kept, so
\* the next message is taken as the comment again; a comment of 10 or more
\* characters adds exactly one review and clears the state.
C30_ShortCommentRejected ==
    [][\A sender \in Senders, text \in Comments :
        handle_review_comment(sender, text)
        => LET user_id == sender.user_id
               n == Len(reviews.reviews)
           IN IF Len(text) < 10
              THEN /\ reviews' = reviews
                   /\ user_states' = user_states
                   /\ user_states'[user_id].step = "comment"
                   /\ reviewed'.reply = "too_short"
              ELSE /\ Len(reviews'.reviews) = n + 1
                   /\ SubSeq(reviews'.reviews, 1, n) = reviews.reviews
                   /\ reviews'.reviews[n + 1].comment = text
                   /\ reviews'.reviews[n + 1].rating = user_states[user_id].rating
                   /\ reviews'.reviews[n + 1].user_id = user_id
                   /\ reviews'.statistics.total_reviews =
                         reviews.statistics.total_reviews + 1
                   /\ user_states'[user_id] = NoState
                   /\ \A other \in SenderIds \ {user_id} :
                         user_states'[other] = user_states[other]]_vars

\* after a review of ten characters by the other user, alice's comment of
\* nine characters has been turned down: the store has the one review and
\* she is still in the comment step with her five stars
C30_Witness ==
    /\ reviewed = [user_id |-> 42, text |-> CommentNine, reply |-> "too_short",
                   review_id |-> 0]
    /\ user_states[42] = [action |-> "writing_review", step |-> "comment",
                          rating |-> 5]
    /\ Len(reviews.reviews) = 1
    /\ reviews.reviews[1].comment = CommentTen
    /\ reviews.reviews[1].username = "Anonymous"
    /\ reviews.statistics.total_reviews = 1
    /\ user_states[43] = NoState

\* ============================================== escalation and the requests
\* the ticket at place i is marked by escalate_ticket in this step
MarkedEscalated(i) ==
    /\ escalate_calls'[Tickets[i].id] = escalate_calls[Tickets[i].id] + 1
    /\ TicketsAfter[i].escalated
    /\ TicketsAfter[i].priority = "high"

\* C32: under any interleaving of the escalation scan with resolve_ticket
\* and update_ticket_status, escalate_ticket marks only a ticket that is
\* open at the moment it is marked: no ticket is set to escalated and
\* priority "high", with an alert to the admins, while its status is not
\* "open".
C32_EscalatesOnlyOpen ==
    [][\A i \in TicketIdx :
          MarkedEscalated(i) => Tickets[i].status = "open"]_vars

\* C33: escalation changes only the priority and the escalated flag of the
\* ticket it escalates (the model keeps no updated_at): it changes no
\* ticket's status, resolution or responses, no other ticket, and neither
\* active_tickets, resolved_tickets, next_ticket_id nor any stat; and in
\* every reachable state every escalated ticket has priority "high".
C33_EscalationFrame ==
    /\ [](\A i \in TicketIdx : Tickets[i].escalated => Tickets[i].priority = "high")
    /\ [][\A io \in IoOutcomes :
            MonitorEscalate(io)
            => LET e == mon.open_tickets[mon.idx]
               IN /\ Len(TicketsAfter) = Len(Tickets)
                  /\ \A i \in TicketIdx \ {e} : TicketsAfter[i] = Tickets[i]
                  /\ TicketsAfter[e] =
                        [Tickets[e] EXCEPT !.priority = TicketsAfter[e].priority,
                                           !.escalated = TicketsAfter[e].escalated]
                  /\ TicketsAfter[e].status = Tickets[e].status
                  /\ TicketsAfter[e].resolution = Tickets[e].resolution
                  /\ TicketsAfter[e].responses = Tickets[e].responses
                  /\ support_tickets'.active_tickets = support_tickets.active_tickets
                  /\ support_tickets'.resolved_tickets =
                        support_tickets.resolved_tickets
                  /\ support_tickets'.next_ticket_id = support_tickets.next_ticket_id
                  /\ support_stats' = support_stats]_vars

\* the pass has escalated the first ticket, which has an answer, and is
\* about to look at the second, which is younger
C33_Witness ==
    /\ mon.pc = "loop"
    /\ mon.escalated_in_pass = {1}
    /\ mon.idx = 2
    /\ Len(Tickets) = 2
    /\ Tickets[1].escalated
    /\ Tickets[1].priority = "high"
    /\ Tickets[1].status = "open"
    /\ Len(Tickets[1].responses) = 1
    /\ ~Tickets[2].escalated
    /\ Tickets[2].priority = "medium"
    /\ support_tickets.active_tickets = 2

\* ================================================ the classifier is pure
\* what the text alone decides: no answer for a human-agent phrase,
\* otherwise the first category of the table with a keyword in the text
Verdict(text) ==
    IF HasPhrase(text, human_agent_keywords)
    THEN NULL
    ELSE IF \E k \in 1..Len(CategoryOrder) : CategoryHit(k, text)
    THEN CategoryOrder[CHOOSE k \in 1..Len(CategoryOrder) :
                          /\ CategoryHit(k, text)
                          /\ \A j \in 1..(k - 1) : ~CategoryHit(j, text)]
    ELSE NULL

\* C31: the classifier has no side effects: a call of
\* analyze_message_for_auto_response changes no ticket, counter, stat or
\* session (nor anything else of the shop), and its result is decided by
\* the text it is given, whatever tickets, counters and sessions there are.
C31_ClassifierIsPure ==
    [][Analyze
        => /\ support_tickets' = support_tickets
           /\ support_stats' = support_stats
           /\ support_states' = support_states
           /\ UNCHANGED <<now, mon, escalate_calls, escalation_alerts, call,
                          env, disk, race, handled, shop>>
           /\ inbound'.message = inbound.message
           /\ inbound'.auto_response = Verdict(inbound.message)]_vars

\* "refund my order" has been answered with order_status while there are an
\* open and a resolved ticket and a user is choosing words for a ticket
C31_Witness ==
    /\ inbound = [message |-> TextRefundOrder, auto_response |-> "order_status"]
    /\ Len(Tickets) = 2
    /\ Tickets[1].status = "resolved"
    /\ Tickets[2].status = "open"
    /\ support_states[42].action = "creating_ticket"
    /\ support_stats.total_tickets = 2

\* ===================================================== inside a session
\* C34: while a user has a 'creating_ticket' session, the next message of
\* theirs that the handler is given and that is not a cancel word becomes
\* a ticket: it is not answered by the classifier, not skipped and not
\* taken as a human-agent request, even when it has classifier keywords or
\* human-agent phrases or the user is in a transactional state of the shop
\* bot.
C34_SessionMessageBecomesTicket ==
    [][\A sender \in Senders, text \in DispatchTexts, tr \in BOOLEAN :
        (/\ InSession(sender.user_id)
         /\ text \notin CancelTexts
         /\ HandlerRan(sender, text, tr))
        => LET n == Len(TicketsAfter)
           IN /\ n = Len(Tickets) + 1
              /\ TicketsAfter[n].message = text
              /\ TicketsAfter[n].user_id = sender.user_id
              /\ TicketsAfter[n].category = support_states[sender.user_id].category
              /\ handled'.reply = "created"
              /\ handled'.ticket_id = TicketsAfter[n].id
              /\ handled'.human_agent_sent = <<>>
              /\ ~InSession(sender.user_id)']_vars

\* both tickets of the store were typed in a session: the first asks for a
\* real person, the second has the keywords refund and order
C34_Witness ==
    /\ Len(Tickets) = 2
    /\ Tickets[1].message = TextRealPerson
    /\ Tickets[1].category = "Order Issues"
    /\ Tickets[2].message = TextRefundOrder
    /\ Tickets[2].user_id = 42
    /\ handled.reply = "created"
    /\ handled.text = TextRefundOrder
    /\ handled.ticket_id = 2
    /\ support_states[42] = NoSession

\* ==================================================== outside a session
\* the run of the handler took the message as a request for a human agent:
\* every admin of the roster got the request, the user the confirmation,
\* and no ticket, counter, stat or session changed
TakenAsHumanRequest(sender, text) ==
    /\ handled'.reply = "human_agent"
    /\ Len(handled'.human_agent_sent) = Len(admin_users)
    /\ \A k \in 1..Len(admin_users) :
          /\ handled'.human_agent_sent[k].chat_id = admin_users[k]
          /\ handled'.human_agent_sent[k].kind = "human_agent_request"
          /\ handled'.human_agent_sent[k].ticket_id = sender.user_id
          /\ handled'.human_agent_sent[k].text = text
    /\ UNCHANGED <<support_tickets, support_stats, support_states>>

\* C35 as claimed: for a user with no ticket-creation session every message
\* with a phrase of the classifier's human-agent list is taken by the
\* handler as a human-agent request: every admin is notified, the user gets
\* the confirmation, there is no auto-response and no suggestion, and no
\* ticket or counter changes.
C35_HumanPhraseIsRequest ==
    [][\A sender \in Senders, text \in DispatchTexts, tr \in BOOLEAN :
        (/\ HandlerRan(sender, text, tr)
         /\ ~InSession(sender.user_id)
         /\ HasPhrase(text, human_agent_keywords))
        => TakenAsHumanRequest(sender, text)]_vars

\* a phrase with words before and after it
InSentence(phrase) ==
    <<"s", "o", " ">> \o phrase \o <<" ", "n", "o", "w">>

\* C35, amended: the same for a user who has no ticket-creation session and
\* is not in a transactional state of the shop bot; in such a state the
\* handler returns without notifying anybody. Every phrase of the
\* classifier's list, inside a sentence, is one the handler answers as a
\* human-agent request.
C35_HumanPhraseIsRequestUnlessTransactional ==
    /\ [](\A k \in 1..Len(human_agent_keywords) :
            Answer(InSentence(human_agent_keywords[k]), FALSE) = "human_agent")
    /\ [][\A sender \in Senders, text \in DispatchTexts :
        (/\ HandlerRan(sender, text, FALSE)
         /\ ~InSession(sender.user_id)
         /\ HasPhrase(text, human_agent_keywords))
        => TakenAsHumanRequest(sender, text)]_vars

\* the user without a username has asked for a real person while a ticket
\* of theirs is in the store and the other user is in a session: both
\* admins have the request
C35_Witness ==
    /\ handled.reply = "human_agent"
    /\ handled.user_id = 43
    /\ handled.text = TextRealPerson
    /\ handled.human_agent_sent =
          <<Notice(7, "human_agent_request", 43, TextRealPerson),
            Notice(8, "human_agent_request", 43, TextRealPerson)>>
    /\ Len(Tickets) = 1
    /\ Tickets[1].user_id = 43
    /\ support_states[43] = NoSession
    /\ support_states[42].action = "creating_ticket"

\* C36: for a user with no ticket-creation session who is in a
\* transactional state of the shop bot the handler does nothing: no reply,
\* no notification of the admins, no ticket, and no session or counter
\* changes.
C36_TransactionalIsSkipped ==
    [][\A sender \in Senders, text \in DispatchTexts :
        (/\ HandlerRan(sender, text, TRUE)
         /\ ~InSession(sender.user_id))
        => /\ handled'.reply = "none"
           /\ handled'.human_agent_sent = <<>>
           /\ handled'.ticket_id = 0
           /\ ~handled'.raised
           /\ UNCHANGED <<support_tickets, support_stats, support_states,
                          call, disk, escalate_calls, escalation_alerts>>]_vars

\* alice, who has a ticket and no session, has asked for a real person
\* while in a transactional state and got no reply; the other user is in a
\* session
C36_Witness ==
    /\ handled = Handled(42, TextRealPerson, "none", 0, FALSE)
    /\ support_states[42] = NoSession
    /\ support_states[43].action = "creating_ticket"
    /\ Len(Tickets) = 1
    /\ Tickets[1].user_id = 42
    /\ Tickets[1].message = TextRefundOrder

\* ====================================================== the review store
Reviews == reviews.reviews

\* C37: after any sequence of add_review and delete_review calls no two
\* reviews of the list share an id, and get_review_by_id(id) returns the
\* review add_review returned that id for: right after add_review has
\* returned an id, get_review_by_id finds the review just added.
C37_ReviewIdsUnique ==
    /\ [](\A i, j \in 1..Len(Reviews) : Reviews[i].id = Reviews[j].id => i = j)
    /\ [][\A review_id \in ReviewIdArgs :
            (AddReview /\ review_id = Len(Reviews) + 1)
            => get_review_by_id(review_id)' = Len(Reviews) + 1]_vars

\* the reviews with this rating, with an order id, and the ids of the list
WithRating(r) == {i \in 1..Len(Reviews) : Reviews[i].rating = r}
WithOrder == {i \in 1..Len(Reviews) : Reviews[i].order_id # NULL}
ReviewIds == {Reviews[i].id : i \in 1..Len(Reviews)}

\* C38: after any sequence of add_review and delete_review calls from an
\* empty store, total_reviews is the number of reviews of the list and the
\* sum of rating_distribution, rating_distribution[r] is the number of
\* reviews with rating r, verified_reviews is the number of reviews with an
\* order id, and featured_reviews holds at most 5 ids, each of a review of
\* the list.
C38_ReviewStatsMatchList ==
    LET distribution == reviews.statistics.rating_distribution
    IN /\ reviews.statistics.total_reviews = Len(Reviews)
       /\ reviews.statistics.total_reviews =
             distribution[1] + distribution[2] + distribution[3]
             + distribution[4] + distribution[5]
       /\ \A r \in 1..5 : distribution[r] = Cardinality(WithRating(r))
       /\ reviews.verified_reviews = Cardinality(WithOrder)
       /\ Len(reviews.featured_reviews) <= 5
       /\ \A k \in 1..Len(reviews.featured_reviews) :
             reviews.featured_reviews[k] \in ReviewIds
====
